---- MODULE Spec2Model ----
(***************************************************************************)
(* Model of backend/mcp_client.py: the MCPClient protocol engine (one      *)
(* subprocess, its JSON-RPC session, the pending-request table, the        *)
(* background reader, connect and disconnect) and the MCPManager: the      *)
(* config loader, connect_all, reconnect, disconnect_all, the aggregated   *)
(* tool list, qualified tool names and the status snapshot.                *)
(*                                                                         *)
(* The client runs on one asyncio event loop: a coroutine runs without     *)
(* interruption from one await to the next, so every action below is the   *)
(* code between two awaits of one coroutine.                               *)
(***************************************************************************)
EXTENDS Integers, Sequences, FiniteSets, TLC

\* ------------------------------------------------------------------ bounds

\* Requests one client may issue in a run (ids 1..MaxRequests).
MaxRequests == 3
\* Lines the child's stdout pipe holds unread.
MaxLines == 1
\* Messages the stdin pipe takes before the transport pauses writing
\* (asyncio's high-water mark, counted in messages).
PipeCapacity == 1
\* Length of the config list given to the manager.
MaxConfigs == 3
\* Longest server name and longest tool name a qualified name is built from.
MaxServerLen == 2
MaxToolLen == 3
\* Servers described in one config file.
MaxServers == 2
\* Callers that run manager operations and routes at the same time, and the
\* clients they create altogether.
MaxTasks == 2
MaxObjects == 2

Ids == 1..MaxRequests

CallMethods == {"tools/call", "resources/list", "resources/read"}

\* A Python str is the sequence of its characters.
Str_r == <<"r">>
Str_x_r == <<"x", "_", "r">>

\* The tools the provider advertises in a successful tools/list reply.
Catalog == <<Str_r, Str_x_r>>

\* ------------------------------------------------------------------- state

VARIABLES
    process,      \* MCPClient.process: "None" or "Proc" (a handle)
    child,        \* the subprocess: "none", "alive", "exited"
    readTask,     \* MCPClient._read_task: "none", "running", "done"
    connected,    \* MCPClient._connected
    tools,        \* MCPClient.tools
    request_id,   \* MCPClient._request_id
    pending,      \* keys of MCPClient._pending_requests
    req,          \* per id: the request, its future and what its caller got
    stdout,       \* lines the child wrote that the reader has not read
    unread,       \* messages written to stdin that the child has not read
    written,      \* every message written to the child's stdin, in order
    cpc,          \* where connect() is: "new", "init", "notif", "tools", "done"
    connectRet,   \* what connect() gave its caller: "none", "True", "False", "raised"
    connectExc,   \* the exception connect() caught, "none" when none
    dpc,          \* where disconnect() is: "idle", "reader", "wait"
    discResult,   \* how the last disconnect() ended: "none", "ok", "raised"
    lastCall,     \* the last call_tool / list_resources / read_resource made
    lastSignal,   \* the last signal disconnect() sent the child: "none", "term", "kill"
    configs,      \* MCPManager.configs
    clients,      \* MCPManager.clients: name -> client summary
    order,        \* the keys of MCPManager.clients in insertion order
    caPc,         \* where connect_all() is: "idle", "loop", "connecting", "done", "raised"
    caIdx,        \* position of connect_all's for loop in configs
    caTried,      \* positions of configs for which a client was created
    initialized,  \* MCPManager._initialized
    mgrOp,        \* the manager operation in progress or last ended, with its result
    nameCase,     \* a (server, tool) pair, its qualified name and what that parses to
    serverSet,    \* the servers the operator describes in the config file
    file,         \* the JSON document at config_path, NoFile when there is none
    seen,         \* per document shape, the set of configs its load gave
    tasks,        \* per concurrent caller: the manager operation or route it runs
    objects,      \* every MCPClient created by those callers, by identity
    clientRef     \* MCPManager.clients as references: name -> place in objects

clientVars == <<process, child, readTask, connected, tools, request_id, pending,
                req, stdout, unread, written, cpc, connectRet, connectExc, dpc,
                discResult, lastCall, lastSignal>>
auxVars == <<mgrOp, nameCase, serverSet, file, seen>>
routeVars == <<tasks, objects, clientRef>>
managerVars == <<configs, clients, order, caPc, caIdx, caTried, initialized, auxVars,
                 routeVars>>
vars == <<clientVars, managerVars>>

NoReq == [method |-> "none", st |-> "none", fut |-> "none", tag |-> 0,
          kind |-> "none", outcome |-> "none", nres |-> 0, ndel |-> 0]

\* A line on stdout: a response envelope for `id` (kind "result": a truthy
\* result, "falsy": an empty or missing result, "badtool": a truthy result
\* whose "tools" list has an entry without "name", "error": an error object), or
\* text that is not JSON (kind "junk", id 0), or JSON that is not an object,
\* such as a number or null (kind "scalar", id 0).
Lines == [id : Ids, kind : {"result", "falsy", "badtool", "error"}]
            \cup {[id |-> 0, kind |-> "junk"], [id |-> 0, kind |-> "scalar"]}

ClientInit ==
    /\ process = "None"
    /\ child = "none"
    /\ readTask = "none"
    /\ connected = FALSE
    /\ tools = <<>>
    /\ request_id = 0
    /\ pending = {}
    /\ req = [i \in Ids |-> NoReq]
    /\ stdout = <<>>
    /\ unread = 0
    /\ written = <<>>
    /\ cpc = "new"
    /\ connectRet = "none"
    /\ connectExc = "none"
    /\ dpc = "idle"
    /\ discResult = "none"
    /\ lastCall = [method |-> "none", result |-> "none"]
    /\ lastSignal = "none"

\* ------------------------------------------------ _send_request, first half

\* The transport has paused writing: drain() suspends until the child reads.
Paused == unread > PipeCapacity

\* Lines 148-149: `self._request_id += 1`, and the request takes the new value.
SameIdAgain(rid) == IF rid < 2 THEN rid + 1 ELSE rid
NextId(rid) == rid + 1

\* Lines 148-163 up to the await of drain(): the id, the pending entry, the write.
SentReq(m) == [NoReq EXCEPT !.method = m, !.st = "drain", !.fut = "pending"]

\* ----------------------------------------------------------- connect()

\* Line 90: `except Exception` turns every exception of the sequence into False.
ConnectExceptPartial(exc) == IF exc = "spawn" THEN "False" ELSE "raised"
ConnectExcept(exc) == "False"

\* Lines 50-66: spawn the child, start the reader, send initialize.
ConnectSpawn ==
    /\ cpc = "new"
    /\ dpc = "idle"
    /\ \/ /\ process' = "Proc"
          /\ child' = "alive"
          /\ readTask' = "running"
          /\ request_id' = NextId(request_id)
          /\ req' = [req EXCEPT ![NextId(request_id)] = SentReq("initialize")]
          /\ pending' = pending \cup {NextId(request_id)}
          /\ written' = Append(written, [id |-> NextId(request_id), method |-> "initialize"])
          /\ unread' = unread + 1
          /\ cpc' = "init"
          /\ UNCHANGED <<connectRet, connectExc>>
       \/ /\ cpc' = "done"
          /\ connectRet' = ConnectExcept("spawn")
          /\ connectExc' = "spawn"
          /\ UNCHANGED <<process, child, readTask, request_id, req, pending, written, unread>>
    /\ UNCHANGED <<connected, tools, stdout, dpc, discResult, lastCall, lastSignal, managerVars>>

\* Line 78: `if init_result:` - an empty or null result is falsy.
Truthy(kind) == kind # "falsy"

\* result.get("tools", []) of a tools/list reply (line 192): the provider's
\* catalog, nothing for an empty result, or the catalog with an entry that
\* has no "name" in second place.
ReplyTools(kind) ==
    LET all == [k \in 1..Len(Catalog) |-> [name |-> Catalog[k]]] IN
    CASE kind = "result" -> all
      [] kind = "badtool" -> <<all[1], [description |-> "d"]>> \o Tail(all)
      [] OTHER -> <<>>

\* Lines 192-199: the loop appends one MCPTool per entry; tool_data["name"]
\* (line 194) raises KeyError on an entry without it, which ends the loop for
\* the handler of line 201.
RECURSIVE AppendTools(_, _)
AppendTools(entries, acc) ==
    IF entries = <<>>
    THEN acc
    ELSE IF "name" \in DOMAIN Head(entries)
    THEN AppendTools(Tail(entries), Append(acc, Head(entries).name))
    ELSE acc

\* Lines 186-202, after the request ended with `out`: on a reply the list is
\* emptied (line 190) and filled by the loop, and it is left alone when the
\* request raised.
ToolsAfterFetch(out, kind) ==
    IF out = "success" THEN AppendTools(ReplyTools(kind), <<>>) ELSE tools

\* What connect() does once its initialize request ended with `out`
\* (lines 78-92): on a truthy result the initialized notification is written
\* and its drain() awaited; anything else ends connect().
AfterInitializeEager(i, out) ==
    /\ written' = Append(written, [id |-> 0, method |-> "notifications/initialized"])
    /\ unread' = unread + 1
    /\ cpc' = "notif"
    /\ UNCHANGED <<connectRet, connectExc, tools>>
AfterInitialize(i, out) ==
    IF out = "success" /\ Truthy(req[i].kind)
    THEN /\ written' = Append(written, [id |-> 0, method |-> "notifications/initialized"])
         /\ unread' = unread + 1
         /\ cpc' = "notif"
         /\ UNCHANGED <<connectRet, connectExc, tools>>
    ELSE /\ cpc' = "done"
         /\ connectRet' = IF out = "success" THEN "False" ELSE ConnectExcept(out)
         /\ connectExc' = IF out = "success" THEN "none" ELSE out
         /\ UNCHANGED <<written, unread, tools>>

\* Lines 84-86 and 201-202: _fetch_tools swallows its failure, so connect()
\* returns True however tools/list ended.
DiscoveryReturnStrict(out) == IF out = "success" THEN "True" ELSE "False"
DiscoveryReturn(out) == "True"

\* What _fetch_tools and connect() do once tools/list ended (lines 189-202, 85-86).
AfterToolsList(i, out) ==
    /\ tools' = ToolsAfterFetch(out, req[i].kind)
    /\ cpc' = "done"
    /\ connectRet' = DiscoveryReturn(out)
    /\ UNCHANGED <<written, unread, connectExc>>

\* Line 168: the sender evicts its entry on timeout only.
NeverEvict(i, out) == pending
PendingAfter(i, out) == IF out = "timeout" THEN pending \ {i} ELSE pending

\* _send_request for id i ends with `out`: the caller gets exactly this outcome,
\* and the coroutine that sent it runs on to its next await.
Complete(i, out) ==
    /\ req' = [req EXCEPT ![i].st = "done", ![i].outcome = out, ![i].ndel = @ + 1]
    /\ pending' = PendingAfter(i, out)
    /\ CASE req[i].method = "initialize" -> AfterInitialize(i, out)
         [] req[i].method = "tools/list" -> AfterToolsList(i, out)
         [] OTHER -> UNCHANGED <<written, unread, cpc, connectRet, connectExc, tools>>
    /\ UNCHANGED <<process, child, readTask, connected, request_id, stdout, dpc,
                   discResult, lastCall, lastSignal, managerVars>>

\* Line 163: drain() returns once the transport is not paused.
DrainOk(i) ==
    /\ req[i].st = "drain"
    /\ ~Paused
    /\ req' = [req EXCEPT ![i].st = "wait"]
    /\ UNCHANGED <<process, child, readTask, connected, tools, request_id, pending,
                   stdout, unread, written, cpc, connectRet, connectExc, dpc,
                   discResult, lastCall, lastSignal, managerVars>>

\* Line 163: drain() raises ConnectionResetError once the pipe to an exited
\* child is lost; the exception leaves _send_request before line 165.
DrainRaise(i) ==
    /\ req[i].st = "drain"
    /\ child = "exited"
    /\ Complete(i, "write_error")

\* Line 166: wait_for's timer fires while the future is unresolved and cancels
\* it; the sender resumes in a later turn of the event loop.
TimeoutFire(i) ==
    /\ req[i].st = "wait"
    /\ req[i].fut = "pending"
    /\ req' = [req EXCEPT ![i].st = "expired", ![i].fut = "cancelled"]
    /\ UNCHANGED <<process, child, readTask, connected, tools, request_id, pending,
                   stdout, unread, written, cpc, connectRet, connectExc, dpc,
                   discResult, lastCall, lastSignal, managerVars>>

\* Lines 165-169: what the awaiting sender gets when it resumes.
DeliverIgnoresError(r) == IF r.st = "expired" THEN "timeout" ELSE "success"
DeliverOutcome(r) ==
    IF r.st = "expired" THEN "timeout"
    ELSE IF r.fut = "exception" THEN "remote_error" ELSE "success"

ResumeUnresolved(r) == r.st \in {"wait", "expired"}
CanResume(r) == \/ r.st = "wait" /\ r.fut \in {"result", "exception"}
                \/ r.st = "expired"

Resume(i) ==
    /\ CanResume(req[i])
    /\ Complete(i, DeliverOutcome(req[i]))

\* Lines 80-84: the notification's drain() returned: connected is set and
\* _fetch_tools sends tools/list.
NotifDrainOk ==
    /\ cpc = "notif"
    /\ ~Paused
    /\ request_id < MaxRequests
    /\ connected' = TRUE
    /\ request_id' = NextId(request_id)
    /\ req' = [req EXCEPT ![NextId(request_id)] = SentReq("tools/list")]
    /\ pending' = pending \cup {NextId(request_id)}
    /\ written' = Append(written, [id |-> NextId(request_id), method |-> "tools/list"])
    /\ unread' = unread + 1
    /\ cpc' = "tools"
    /\ UNCHANGED <<process, child, readTask, tools, stdout, connectRet, connectExc,
                   dpc, discResult, lastCall, lastSignal, managerVars>>

\* Line 80: the notification's drain() raised; line 90 catches it.
NotifDrainRaise ==
    /\ cpc = "notif"
    /\ child = "exited"
    /\ cpc' = "done"
    /\ connectRet' = ConnectExcept("write_error")
    /\ connectExc' = "write_error"
    /\ UNCHANGED <<process, child, readTask, connected, tools, request_id, pending,
                   req, stdout, unread, written, dpc, discResult, lastCall, lastSignal, managerVars>>

\* ------------------------------------------------------- _read_responses

\* Line 128: the entry a response line is matched to, by its id.
IsPending(id, pend) == id \in pend

\* Line 129: the future popped for the line is the one stored under its id.
OldestPending(id, pend) == CHOOSE j \in pend : \A k \in pend : j <= k
FutureFor(id, pend) == id

\* Line 129: pop removes the entry.
KeepEntry(id, pend) == pend
PopEntry(id, pend) == pend \ {id}

\* Lines 130-133: set_exception on an error field, set_result otherwise; both
\* raise InvalidStateError on a future that is no longer pending (cancelled by
\* wait_for), which the handler of line 140 catches outside the loop.
Resolved(r, line) ==
    [r EXCEPT !.fut = IF line.kind = "error" THEN "exception" ELSE "result",
              !.tag = line.id, !.kind = line.kind, !.nres = @ + 1]

\* Line 128: `"id" in message` raises TypeError when json.loads gave a value
\* that is no container (a number, true, null); only json.JSONDecodeError is
\* caught inside the loop (line 135).
MembershipRaises(line) == line.kind = "scalar"

\* One turn of the loop of lines 119-136 on the next line of stdout; an
\* exception other than JSONDecodeError leaves the loop for the handler of
\* line 140 and the task ends.
ReaderStep ==
    /\ readTask = "running"
    /\ process = "Proc"
    /\ stdout # <<>>
    /\ stdout' = Tail(stdout)
    /\ LET line == Head(stdout) IN
       IF MembershipRaises(line)
       THEN readTask' = "done" /\ UNCHANGED <<pending, req>>
       ELSE IF line.kind # "junk" /\ IsPending(line.id, pending)
       THEN LET t == FutureFor(line.id, pending) IN
            /\ pending' = PopEntry(line.id, pending)
            /\ IF req[t].fut = "pending"
               THEN req' = [req EXCEPT ![t] = Resolved(req[t], line)] /\ readTask' = readTask
               ELSE req' = req /\ readTask' = "done"
       ELSE UNCHANGED <<pending, req, readTask>>
    /\ UNCHANGED <<process, child, connected, tools, request_id, unread, written, cpc,
                   connectRet, connectExc, dpc, discResult, lastCall, lastSignal, managerVars>>

\* Lines 120-122: readline() returns b"" once the exited child's output is read.
ReaderEOF ==
    /\ readTask = "running"
    /\ child = "exited"
    /\ stdout = <<>>
    /\ readTask' = "done"
    /\ UNCHANGED <<process, child, connected, tools, request_id, pending, req, stdout,
                   unread, written, cpc, connectRet, connectExc, dpc, discResult,
                   lastCall, lastSignal, managerVars>>

\* ----------------------------------------------------------- the provider

\* The child reads one message from its stdin. A child that hangs is one that
\* takes none of these steps any more.
ChildRead ==
    /\ child = "alive"
    /\ unread > 0
    /\ unread' = unread - 1
    /\ UNCHANGED <<process, child, readTask, connected, tools, request_id, pending, req,
                   stdout, written, cpc, connectRet, connectExc, dpc, discResult,
                   lastCall, lastSignal, managerVars>>

\* The child writes one line: a reply to any id, in any order, repeated or
\* not, or text that is not JSON. A result with a malformed "tools" list is
\* told apart from any other truthy result only where it answers tools/list.
ChildEmit ==
    /\ child = "alive"
    /\ Len(stdout) < MaxLines
    /\ \E line \in Lines :
         /\ line.kind = "badtool" => req[line.id].method = "tools/list"
         /\ stdout' = Append(stdout, line)
    /\ UNCHANGED <<process, child, readTask, connected, tools, request_id, pending, req,
                   unread, written, cpc, connectRet, connectExc, dpc, discResult,
                   lastCall, lastSignal, managerVars>>

\* The child exits on its own.
ChildExit ==
    /\ child = "alive"
    /\ child' = "exited"
    /\ UNCHANGED <<process, readTask, connected, tools, request_id, pending, req, stdout,
                   unread, written, cpc, connectRet, connectExc, dpc, discResult,
                   lastCall, lastSignal, managerVars>>

\* ------------------------------- call_tool, list_resources, read_resource

\* Lines 206, 218, 230: the guard on _connected.
ProcessPresent(c, p) == p # "None"
CallAlways(c, p) == TRUE
CallAllowed(c, p) == c

\* What a call made while not connected gives: call_tool and read_resource
\* raise (lines 207, 231), list_resources returns [] (line 219).
Refusal(m) == IF m = "resources/list" THEN "empty" ELSE "not_connected"

\* What the caller of the public method gets once _send_request has ended
\* with `out`: call_tool and read_resource hand on its result or its exception
\* (lines 209-214, 233-234); list_resources catches every exception and
\* returns [] (lines 221-226).
Propagates(m, out) == out
CallerGets(m, out) == IF m = "resources/list" /\ out # "success" THEN "empty" ELSE out

\* What the caller of the public method that sent request i has been given.
Returned(i) == CallerGets(req[i].method, req[i].outcome)

ClientCall(m) ==
    /\ IF ~CallAllowed(connected, process)
       THEN /\ lastCall' = [method |-> m, result |-> Refusal(m)]
            /\ UNCHANGED <<request_id, req, pending, written, unread>>
       ELSE IF process = "None"
       THEN \* line 146
            /\ lastCall' = [method |-> m, result |-> CallerGets(m, "no_process")]
            /\ UNCHANGED <<request_id, req, pending, written, unread>>
       ELSE /\ request_id < MaxRequests
            /\ lastCall' = [method |-> m, result |-> "sent"]
            /\ request_id' = NextId(request_id)
            /\ req' = [req EXCEPT ![NextId(request_id)] = SentReq(m)]
            /\ pending' = pending \cup {NextId(request_id)}
            /\ written' = Append(written, [id |-> NextId(request_id), method |-> m])
            /\ unread' = unread + 1
    /\ UNCHANGED <<process, child, readTask, connected, tools, stdout, cpc, connectRet,
                   connectExc, dpc, discResult, lastSignal, managerVars>>

call_tool == ClientCall("tools/call")
list_resources == ClientCall("resources/list")
read_resource == ClientCall("resources/read")

\* ------------------------------------------------------------- disconnect()

\* Line 105: `if self.process:`.
AlwaysTerminate(p) == TRUE
NeedsTerminate(p) == p # "None"

\* Lines 105-113, entered with the reader finished. terminate() on a handle
\* whose child has already exited raises ProcessLookupError once the
\* transport is closed, and is a no-op before that.
DisconnectProcess ==
    IF NeedsTerminate(process)
    THEN \/ /\ process = "Proc"
            /\ child # "exited"
            /\ child' \in {child, "exited"}
            /\ lastSignal' = "term"
            /\ dpc' = "wait"
            /\ UNCHANGED <<process, tools, discResult>>
         \/ /\ process = "Proc"
            /\ child = "exited"
            /\ \/ dpc' = "wait" /\ discResult' = discResult /\ lastSignal' = "term"
               \/ dpc' = "idle" /\ discResult' = "raised" /\ lastSignal' = lastSignal
            /\ UNCHANGED <<process, child, tools>>
         \/ /\ process = "None"
            /\ dpc' = "idle"
            /\ discResult' = "raised"
            /\ UNCHANGED <<process, child, tools, lastSignal>>
    ELSE /\ tools' = <<>>
         /\ dpc' = "idle"
         /\ discResult' = "ok"
         /\ UNCHANGED <<process, child, lastSignal>>

\* Lines 96-103: clear the flag, cancel the reader and await it. disconnect()
\* is called on a client whose connect() is not in progress: one that was
\* never connected, or one whose connect() has returned.
DisconnectBegin ==
    /\ dpc = "idle"
    /\ cpc \in {"new", "done"}
    /\ connected' = FALSE
    /\ IF readTask = "running"
       THEN /\ readTask' = "done"
            /\ dpc' = "reader"
            /\ UNCHANGED <<process, child, tools, discResult, lastSignal>>
       ELSE /\ readTask' = readTask
            /\ DisconnectProcess
    /\ UNCHANGED <<request_id, pending, req, stdout, unread, written, cpc, connectRet,
                   connectExc, lastCall, managerVars>>

\* Line 101 returned: the cancelled reader has finished.
DisconnectAfterReader ==
    /\ dpc = "reader"
    /\ DisconnectProcess
    /\ UNCHANGED <<readTask, connected, request_id, pending, req, stdout, unread, written,
                   cpc, connectRet, connectExc, lastCall, managerVars>>

\* Lines 108-110: wait_for ends when the child has exited or, with the child
\* still running after the grace period, on the timeout: only then kill().
KillsAlways(c) == TRUE
Kills(c) == c # "exited"

\* Lines 108-113: wait() returned, or the grace period ran out and the child
\* is killed; the handle is dropped and the tool list cleared.
DisconnectKeepsHandle ==
    /\ dpc = "wait"
    /\ child' = "exited"
    /\ lastSignal' = IF Kills(child) THEN "kill" ELSE lastSignal
    /\ dpc' = "idle"
    /\ discResult' = "ok"
    /\ UNCHANGED <<process, tools, readTask, connected, request_id, pending, req, stdout,
                   unread, written, cpc, connectRet, connectExc, lastCall, managerVars>>
DisconnectAfterWait ==
    /\ dpc = "wait"
    /\ child' = "exited"
    /\ lastSignal' = IF Kills(child) THEN "kill" ELSE lastSignal
    /\ process' = "None"
    /\ tools' = <<>>
    /\ dpc' = "idle"
    /\ discResult' = "ok"
    /\ UNCHANGED <<readTask, connected, request_id, pending, req, stdout, unread, written,
                   cpc, connectRet, connectExc, lastCall, managerVars>>

\* ------------------------------------------------ MCPManager.connect_all

Str_fs == <<"f", "s">>
Str_fs_x == <<"f", "s", "_", "x">>

\* Server names: nothing in MCPServerConfig (lines 16-23) restricts a name.
Names == {Str_fs, Str_fs_x}

ConfigSpace == [name : Names, enabled : BOOLEAN]

ConfigLists == UNION {[1..n -> ConfigSpace] : n \in 0..MaxConfigs}

\* How one provider behaves during a connect(): whether the spawn works and
\* how the initialize request, the notification's write and tools/list end.
Behaviours ==
    [spawn : BOOLEAN,
     init : {"success", "falsy", "remote_error", "timeout", "write_error"},
     notif : {"ok", "write_error"},
     list : {"success", "remote_error", "timeout", "write_error"}]

\* connect() (lines 47-92) of a fresh client as a function of the provider's
\* behaviour: what it returns and the client it leaves.
ConnectResult(b) ==
    IF ~b.spawn
    THEN [ret |-> ConnectExcept("spawn"), connected |-> FALSE, process |-> "None", tools |-> <<>>]
    ELSE IF b.init = "falsy"
    THEN [ret |-> "False", connected |-> FALSE, process |-> "Proc", tools |-> <<>>]
    ELSE IF b.init # "success"
    THEN [ret |-> ConnectExcept(b.init), connected |-> FALSE, process |-> "Proc", tools |-> <<>>]
    ELSE IF b.notif # "ok"
    THEN [ret |-> ConnectExcept(b.notif), connected |-> FALSE, process |-> "Proc", tools |-> <<>>]
    ELSE [ret |-> DiscoveryReturn(b.list), connected |-> TRUE, process |-> "Proc",
          tools |-> IF b.list = "success" THEN Catalog ELSE <<>>]

\* The client connect() leaves, as the registry holds it.
ClientOf(name, r) ==
    [name |-> name, connected |-> r.connected, process |-> r.process, tools |-> r.tools,
     child |-> IF r.process = "Proc" THEN "alive" ELSE "none"]

ManagerInit ==
    /\ configs \in ConfigLists
    /\ clients = [n \in {} |-> 0]
    /\ order = <<>>
    /\ caPc = "idle"
    /\ caIdx = 0
    /\ caTried = [k \in {} |-> 0]
    /\ initialized = FALSE

\* Spec checks one client alone: its manager holds no config and stays idle.
ManagerIdle ==
    /\ configs = <<>>
    /\ clients = [n \in {} |-> 0]
    /\ order = <<>>
    /\ caPc = "idle"
    /\ caIdx = 0
    /\ caTried = [k \in {} |-> 0]
    /\ initialized = FALSE

\* Lines 296-300: a disabled config and a name already registered are skipped.
SkipsRegistered(cfg, registry) == cfg.name \in DOMAIN registry
Skips(cfg, registry) == ~cfg.enabled \/ cfg.name \in DOMAIN registry

\* Line 304: the client is registered when connect() returned True.
Registers(ret) == ret = "True"

\* Line 306: `except Exception` keeps the loop going.
ConnectAllCatches(ret) == ret = "raised"

\* The for loop of line 295 moves on to the next config.
StopAtFailure(i, ret) == IF ret = "True" THEN i + 1 ELSE Len(configs) + 1
NextConfig(i, ret) == i + 1

Put(f, k, v) == [x \in DOMAIN f \cup {k} |-> IF x = k THEN v ELSE f[x]]

\* A dict keeps its keys in insertion order; assigning to a key it has keeps
\* the key's place.
OrderPut(ord, f, k) == IF k \in DOMAIN f THEN ord ELSE Append(ord, k)

\* connect_all() is called (line 293).
ConnectAllStart ==
    /\ caPc = "idle"
    /\ caPc' = "loop"
    /\ caIdx' = 1
    /\ UNCHANGED <<configs, clients, order, caTried, initialized, auxVars, clientVars, routeVars>>

\* Lines 295-304: the loop takes the next config and either skips it or
\* creates a client and awaits its connect(); line 310 after the last one.
ConnectAllStep ==
    /\ caPc = "loop"
    /\ IF caIdx > Len(configs)
       THEN /\ initialized' = TRUE
            /\ caPc' = "done"
            /\ UNCHANGED <<caIdx, caTried>>
       ELSE IF Skips(configs[caIdx], clients)
       THEN /\ caIdx' = caIdx + 1
            /\ UNCHANGED <<caPc, caTried, initialized>>
       ELSE /\ caPc' = "connecting"
            /\ caTried' = Put(caTried, caIdx, "none")
            /\ UNCHANGED <<caIdx, initialized>>
    /\ UNCHANGED <<configs, clients, order, auxVars, clientVars, routeVars>>

\* Lines 304-308: connect() returned (or raised) for the config at caIdx.
ConnectAllReturn ==
    /\ caPc = "connecting"
    /\ \E b \in Behaviours :
         LET r == ConnectResult(b) IN
         /\ caTried' = Put(caTried, caIdx, r.ret)
         /\ clients' = IF Registers(r.ret)
                       THEN Put(clients, configs[caIdx].name, ClientOf(configs[caIdx].name, r))
                       ELSE clients
         /\ order' = IF Registers(r.ret)
                     THEN OrderPut(order, clients, configs[caIdx].name)
                     ELSE order
         /\ caIdx' = NextConfig(caIdx, r.ret)
         /\ caPc' = IF r.ret = "raised" /\ ~ConnectAllCatches(r.ret) THEN "raised" ELSE "loop"
    /\ UNCHANGED <<configs, initialized, auxVars, clientVars, routeVars>>

\* ---------------------------------------------------- qualified tool names

\* Line 346: the prefix of f"mcp_{server_name}_{name}".
Prefix == <<"m", "c", "p", "_">>

\* Line 364: full_tool_name[4:].
PrefixLen == 4

\* Line 346: the name get_tools_for_llm gives a tool.
FullName(server_name, name) == Prefix \o server_name \o <<"_">> \o name

\* str.startswith.
AnyStart(s, pre) == TRUE
StartsWith(s, pre) == Len(s) >= Len(pre) /\ SubSeq(s, 1, Len(pre)) = pre

\* s[n:].
Drop(s, n) == SubSeq(s, n + 1, Len(s))

HasSep(s) == \E k \in 1..Len(s) : s[k] = "_"

\* Line 364: split("_", 1) splits at the first "_" from the left.
LastSep(s) == CHOOSE k \in 1..Len(s) : s[k] = "_" /\ \A j \in (k + 1)..Len(s) : s[j] # "_"
FirstSep(s) == CHOOSE k \in 1..Len(s) : s[k] = "_" /\ \A j \in 1..(k - 1) : s[j] # "_"

\* str.split("_", 1): one part when there is no "_", else the text before the
\* first "_" and the text after it.
SplitOnce(s) ==
    IF HasSep(s)
    THEN <<SubSeq(s, 1, FirstSep(s) - 1), SubSeq(s, FirstSep(s) + 1, Len(s))>>
    ELSE <<s>>

\* Lines 360-368: what MCPManager.call_tool makes of a full tool name.
ParseFullName(full_tool_name) ==
    IF ~StartsWith(full_tool_name, Prefix)
    THEN [error |-> "invalid_name", server_name |-> <<>>, tool_name |-> <<>>]
    ELSE LET parts == SplitOnce(Drop(full_tool_name, PrefixLen)) IN
         IF Len(parts) # 2
         THEN [error |-> "invalid_format", server_name |-> <<>>, tool_name |-> <<>>]
         ELSE [error |-> "none", server_name |-> parts[1], tool_name |-> parts[2]]

\* Lines 335-340: the tools of every registered client, in registry order.
ToolsOfFirst(ord, reg) ==
    IF ord = <<>>
    THEN <<>>
    ELSE [k \in 1..Len(reg[Head(ord)].tools) |->
             [server_name |-> reg[Head(ord)].name, name |-> reg[Head(ord)].tools[k]]]
RECURSIVE get_all_tools(_, _)
get_all_tools(ord, reg) ==
    IF ord = <<>>
    THEN <<>>
    ELSE LET c == reg[Head(ord)] IN
         [k \in 1..Len(c.tools) |-> [server_name |-> c.name, name |-> c.tools[k]]]
             \o get_all_tools(Tail(ord), reg)

\* Lines 342-356: one entry per tool; the description carries the server name.
get_tools_for_llm(ord, reg) ==
    LET all == get_all_tools(ord, reg) IN
    [k \in 1..Len(all) |->
        [name |-> FullName(all[k].server_name, all[k].name),
         server_name |-> all[k].server_name,
         tool |-> all[k].name]]

\* Lines 375-388.
StatusByFlag(cfgs, reg, init) ==
    [initialized |-> init,
     servers |-> [k \in 1..Len(cfgs) |->
        [name |-> cfgs[k].name, enabled |-> cfgs[k].enabled,
         connected |-> cfgs[k].enabled, tools_count |-> 0]]]
get_server_status(cfgs, reg, init) ==
    [initialized |-> init,
     servers |-> [k \in 1..Len(cfgs) |->
        [name |-> cfgs[k].name,
         enabled |-> cfgs[k].enabled,
         connected |-> cfgs[k].name \in DOMAIN reg,
         tools_count |-> IF cfgs[k].name \in DOMAIN reg
                         THEN Len(reg[cfgs[k].name].tools) ELSE 0]]]

\* ------------------------------------- MCPManager operations on the registry

\* No client: what reconnect() found under a name that was not registered.
NoClient == [name |-> <<>>, connected |-> FALSE, process |-> "None", tools |-> <<>>,
             child |-> "none"]

\* No manager operation has been called yet.
NoOp == [op |-> "none", pc |-> "done"]

RegistryIdle == mgrOp = NoOp

\* The manager operations below are called one after another: the next one
\* starts when the one before has returned or raised.
ManagerQuiet == mgrOp.pc \in {"done", "raised"}

Remove(f, k) == [x \in DOMAIN f \ {k} |-> f[x]]

OrderDel(ord, k) == SelectSeq(ord, LAMBDA x : x # k)

\* A registered client's subprocess exits on its own.
ProviderExit(n) ==
    /\ n \in DOMAIN clients
    /\ clients[n].child = "alive"
    /\ clients' = [clients EXCEPT ![n].child = "exited"]
    /\ UNCHANGED <<configs, order, caPc, caIdx, caTried, initialized, auxVars, clientVars, routeVars>>

\* The client disconnect() leaves when it returns (lines 96-114).
FlagOnly(c) == [c EXCEPT !.connected = FALSE]
Released(c) ==
    [c EXCEPT !.connected = FALSE, !.process = "None", !.tools = <<>>,
              !.child = IF c.child = "none" THEN "none" ELSE "exited"]

\* disconnect() (lines 94-114) on a client of the registry: it returns, or
\* terminate() raises ProcessLookupError on a child that has exited, after
\* line 96 cleared the flag and before anything else was released.
SkipDisconnect(c) == {[raised |-> FALSE, client |-> c]}
DisconnectOutcomes(c) ==
    {[raised |-> FALSE, client |-> Released(c)]}
        \cup (IF NeedsTerminate(c.process) /\ c.child = "exited"
              THEN {[raised |-> TRUE, client |-> [c EXCEPT !.connected = FALSE]]}
              ELSE {})

\* Line 324: next((c for c in self.configs if c.name == server_name), None).
HasConfig(n) == \E k \in 1..Len(configs) : configs[k].name = n

\* Lines 321-329 of reconnect(): disconnect and delete the registered client,
\* look the config up, create the new client and start its connect().
ReconnectBegin(n) ==
    /\ ManagerQuiet
    /\ IF n \in DOMAIN clients
       THEN \E d \in DisconnectOutcomes(clients[n]) :
              IF d.raised
              THEN /\ clients' = Put(clients, n, d.client)
                   /\ order' = order
                   /\ mgrOp' = [op |-> "reconnect", pc |-> "raised", name |-> n,
                                hadOld |-> TRUE, old |-> d.client, ret |-> "raised"]
              ELSE /\ clients' = Remove(clients, n)
                   /\ order' = OrderDel(order, n)
                   /\ mgrOp' = [op |-> "reconnect",
                                pc |-> IF HasConfig(n) THEN "connecting" ELSE "done",
                                name |-> n, hadOld |-> TRUE, old |-> d.client,
                                ret |-> IF HasConfig(n) THEN "none" ELSE "False"]
       ELSE /\ UNCHANGED <<clients, order>>
            /\ mgrOp' = [op |-> "reconnect",
                         pc |-> IF HasConfig(n) THEN "connecting" ELSE "done",
                         name |-> n, hadOld |-> FALSE, old |-> NoClient,
                         ret |-> IF HasConfig(n) THEN "none" ELSE "False"]
    /\ UNCHANGED <<configs, caPc, caIdx, caTried, initialized, nameCase, serverSet, file,
                   seen, clientVars, routeVars>>

\* Lines 330-333: connect() of the new client returned.
ReconnectReturn ==
    /\ mgrOp.op = "reconnect"
    /\ mgrOp.pc = "connecting"
    /\ \E b \in Behaviours :
         LET r == ConnectResult(b) IN
         /\ clients' = IF Registers(r.ret)
                       THEN Put(clients, mgrOp.name, ClientOf(mgrOp.name, r))
                       ELSE clients
         /\ order' = IF Registers(r.ret) THEN OrderPut(order, clients, mgrOp.name) ELSE order
         /\ mgrOp' = [op |-> "reconnect", pc |-> IF r.ret = "raised" THEN "raised" ELSE "done",
                      name |-> mgrOp.name, hadOld |-> mgrOp.hadOld, old |-> mgrOp.old,
                      ret |-> r.ret, fresh |-> ClientOf(mgrOp.name, r)]
    /\ UNCHANGED <<configs, caPc, caIdx, caTried, initialized, nameCase, serverSet, file,
                   seen, clientVars, routeVars>>

\* Line 314: disconnect_all() starts to iterate over self.clients.values().
DisconnectAllStart ==
    /\ ManagerQuiet
    /\ mgrOp' = [op |-> "disconnect_all", pc |-> "loop", rest |-> order, before |-> order]
    /\ UNCHANGED <<configs, clients, order, caPc, caIdx, caTried, initialized, nameCase,
                   serverSet, file, seen, clientVars, routeVars>>

\* Lines 314-317: the loop disconnects the next client; an exception of
\* disconnect() leaves disconnect_all() at once; after the last client the
\* registry is cleared.
DisconnectAllStep ==
    /\ mgrOp.op = "disconnect_all"
    /\ mgrOp.pc = "loop"
    /\ IF mgrOp.rest = <<>>
       THEN /\ clients' = [n \in {} |-> 0]
            /\ order' = <<>>
            /\ initialized' = FALSE
            /\ mgrOp' = [op |-> "disconnect_all", pc |-> "done", rest |-> <<>>,
                         before |-> mgrOp.before, released |-> clients]
       ELSE /\ \E d \in DisconnectOutcomes(clients[Head(mgrOp.rest)]) :
                 /\ clients' = Put(clients, Head(mgrOp.rest), d.client)
                 /\ mgrOp' = IF d.raised
                             THEN [mgrOp EXCEPT !.pc = "raised"]
                             ELSE [mgrOp EXCEPT !.rest = Tail(mgrOp.rest)]
            /\ UNCHANGED <<order, initialized>>
    /\ UNCHANGED <<configs, caPc, caIdx, caTried, nameCase, serverSet, file, seen, clientVars, routeVars>>

\* The names MCPManager.call_tool is called with: every name the catalogue can
\* hold, the same without its prefix, a prefix with no separator after it,
\* and a name with an empty server part.
CallNames ==
    {FullName(n, Catalog[k]) : n \in Names, k \in 1..Len(Catalog)}
        \cup {Drop(FullName(n, Catalog[k]), PrefixLen) : n \in Names, k \in 1..Len(Catalog)}
        \cup {Prefix, Prefix \o Str_r, <<"m", "c", "p">>, FullName(<<>>, Str_r)}

\* MCPClient.call_tool (lines 204-214) as the manager sees it: refused when
\* the client is not connected, else the request is sent.
ClientCallResult(c) ==
    IF ~CallAllowed(c.connected, c.process) THEN Refusal("tools/call")
    ELSE IF c.process = "None" THEN "no_process" ELSE "sent"

\* Lines 358-373: MCPManager.call_tool.
ManagerCallTool(q) ==
    /\ ManagerQuiet
    /\ LET p == ParseFullName(q) IN
       mgrOp' =
         IF p.error # "none"
         THEN [op |-> "call_tool", pc |-> "raised", name |-> q, error |-> p.error,
               server_name |-> <<>>, tool_name |-> <<>>, result |-> "none"]
         ELSE IF p.server_name \notin DOMAIN clients
         THEN [op |-> "call_tool", pc |-> "raised", name |-> q, error |-> "server_not_connected",
               server_name |-> p.server_name, tool_name |-> p.tool_name, result |-> "none"]
         ELSE [op |-> "call_tool",
               pc |-> IF ClientCallResult(clients[p.server_name]) = "sent" THEN "done" ELSE "raised",
               name |-> q, error |-> "none",
               server_name |-> p.server_name, tool_name |-> p.tool_name,
               result |-> ClientCallResult(clients[p.server_name])]
    /\ UNCHANGED <<configs, clients, order, caPc, caIdx, caTried, initialized, nameCase,
                   serverSet, file, seen, clientVars, routeVars>>

\* get_tools_for_llm() is called (lines 342-356).
GetToolsForLLM ==
    /\ ManagerQuiet
    /\ mgrOp' = [op |-> "get_tools_for_llm", pc |-> "done",
                 llm_tools |-> get_tools_for_llm(order, clients)]
    /\ UNCHANGED <<configs, clients, order, caPc, caIdx, caTried, initialized, nameCase,
                   serverSet, file, seen, clientVars, routeVars>>

\* get_server_status() is called (lines 375-388).
GetServerStatus ==
    /\ ManagerQuiet
    /\ mgrOp' = [op |-> "get_server_status", pc |-> "done",
                 status |-> get_server_status(configs, clients, initialized)]
    /\ UNCHANGED <<configs, clients, order, caPc, caIdx, caTried, initialized, nameCase,
                   serverSet, file, seen, clientVars, routeVars>>

\* ------------------------------------- qualified names as a pure function

NameChars == {"a", "b", "_"}

Strings(n) == UNION {[1..k -> NameChars] : k \in 0..n}

NamesIdle == nameCase = [pc |-> "idle"]

\* A server name and a tool name, before the name is built.
NamesInit ==
    nameCase \in {[pc |-> "pair", server_name |-> sv, name |-> t] :
                    sv \in Strings(MaxServerLen), t \in Strings(MaxToolLen)}

\* Line 346: get_tools_for_llm builds the full name of the pair.
Qualify ==
    /\ nameCase.pc = "pair"
    /\ nameCase' = [pc |-> "full", server_name |-> nameCase.server_name,
                    name |-> nameCase.name,
                    full_name |-> FullName(nameCase.server_name, nameCase.name)]
    /\ UNCHANGED <<configs, clients, order, caPc, caIdx, caTried, initialized, mgrOp,
                   serverSet, file, seen, clientVars, routeVars>>

\* Lines 360-368: call_tool parses the full name.
Dequalify ==
    /\ nameCase.pc = "full"
    /\ nameCase' = [pc |-> "parsed", server_name |-> nameCase.server_name,
                    name |-> nameCase.name, full_name |-> nameCase.full_name,
                    parsed |-> ParseFullName(nameCase.full_name)]
    /\ UNCHANGED <<configs, clients, order, caPc, caIdx, caTried, initialized, mgrOp,
                   serverSet, file, seen, clientVars, routeVars>>

\* -------------------------------------------------- load_config_from_file

\* A JSON object is a function from its keys to their values.
Get(obj, key, default) == IF key \in DOMAIN obj THEN obj[key] ELSE default

Str_unnamed == <<"u", "n", "n", "a", "m", "e", "d">>

\* Lines 258-264 and 271-277: the MCPServerConfig built from an entry that
\* has a "command", with the defaults of the .get calls.
ConfigOf(name, server_data) ==
    [name |-> name,
     command |-> server_data["command"],
     args |-> Get(server_data, "args", <<>>),
     env |-> Get(server_data, "env", {}),
     enabled |-> Get(server_data, "enabled", TRUE)]

\* Line 255: data.get("mcpServers", data.get("servers", [])).
OnlyMcpServers(data) == Get(data, "mcpServers", [kind |-> "list", items |-> <<>>])
ArraySource(data) ==
    Get(data, "mcpServers", Get(data, "servers", [kind |-> "list", items |-> <<>>]))

\* Lines 255-265: iterating a list gives its items; iterating a dict gives
\* its keys, which are strings and fail isinstance(server_data, dict).
RECURSIVE FromArray(_)
FromArray(items) ==
    IF items = <<>>
    THEN <<>>
    ELSE (IF "command" \in DOMAIN Head(items)
          THEN <<ConfigOf(Get(Head(items), "name", Str_unnamed), Head(items))>>
          ELSE <<>>) \o FromArray(Tail(items))

\* Line 279: `if not any(c.name == name for c in self.configs)`.
NotLoaded(cfgs, name) == \A k \in 1..Len(cfgs) : cfgs[k].name # name

\* Lines 268-280: the name-keyed entries, in the document's order.
RECURSIVE FromKeyed(_, _)
FromKeyed(pairs, cfgs) ==
    IF pairs = <<>>
    THEN cfgs
    ELSE FromKeyed(Tail(pairs),
                   IF "command" \in DOMAIN Head(pairs).value
                      /\ NotLoaded(cfgs, Head(pairs).key)
                   THEN Append(cfgs, ConfigOf(Head(pairs).key, Head(pairs).value))
                   ELSE cfgs)

\* Lines 254-280: the configs a document gives.
LoadResult(data) ==
    LET src == ArraySource(data)
        first == IF src.kind = "list" THEN FromArray(src.items) ELSE <<>>
    IN  IF "mcpServers" \in DOMAIN data /\ data["mcpServers"].kind = "dict"
        THEN FromKeyed(data["mcpServers"].items, first)
        ELSE first

NoFile == [shape |-> "none"]

LoadIdle ==
    /\ serverSet = {}
    /\ file = NoFile
    /\ seen = [sh \in {} |-> {}]

AsSet(q) == {q[k] : k \in 1..Len(q)}

WithField(es, key, vals) == es \cup {Put(e, key, v) : e \in es, v \in vals}

\* What the operator writes about one server: its name and any of the
\* fields; a field left out takes the loader's default.
Descriptions(n) ==
    WithField(WithField(WithField(WithField({[name |-> n]},
        "command", {"npx"}), "args", {<<"-y">>}), "env", {{"K"}}), "enabled", {FALSE})

AllDescriptions == UNION {Descriptions(n) : n \in Names}

\* Sets of at most MaxServers descriptions with different names.
ServerSets ==
    UNION {{{f[n] : n \in NS} : f \in {g \in [NS -> AllDescriptions] :
                                          \A n \in NS : g[n].name = n}} :
           NS \in {X \in SUBSET Names : Cardinality(X) <= MaxServers}}

Orderings(S) ==
    {q \in [1..Cardinality(S) -> S] : \A i, j \in 1..Cardinality(S) : i # j => q[i] # q[j]}

\* Shape (a): a list of entries that carry their name.
ArrayDoc(q) == [kind |-> "list", items |-> q]

\* Shape (b): a dict from name to the entry without its name.
KeyedDoc(q) ==
    [kind |-> "dict",
     items |-> [k \in 1..Len(q) |-> [key |-> q[k].name, value |-> Remove(q[k], "name")]]]

\* The documents that describe the servers of S.
Documents(S) ==
    {[shape |-> "array", data |-> [mcpServers |-> ArrayDoc(q)]] : q \in Orderings(S)}
        \cup {[shape |-> "servers", data |-> [servers |-> ArrayDoc(q)]] : q \in Orderings(S)}
        \cup {[shape |-> "keyed", data |-> [mcpServers |-> KeyedDoc(q)]] : q \in Orderings(S)}
        \cup {[shape |-> "both", data |-> [servers |-> ArrayDoc(q), mcpServers |-> KeyedDoc(q)]] :
                q \in Orderings(S)}

LoadInit ==
    /\ serverSet \in ServerSets
    /\ file = NoFile
    /\ seen = [sh \in {} |-> {}]

\* The operator writes the config file, in one of its shapes.
WriteFile ==
    /\ \E d \in Documents(serverSet) : file' = d
    /\ UNCHANGED <<configs, clients, order, caPc, caIdx, caTried, initialized, mgrOp,
                   nameCase, serverSet, seen, clientVars, routeVars>>

\* Lines 245-287: load_config_from_file; without a file it returns at once.
load_config_from_file ==
    /\ IF file = NoFile
       THEN UNCHANGED <<configs, seen>>
       ELSE /\ configs' = LoadResult(file.data)
            /\ seen' = Put(seen, file.shape, AsSet(LoadResult(file.data)))
    /\ UNCHANGED <<clients, order, caPc, caIdx, caTried, initialized, mgrOp, nameCase,
                   serverSet, file, clientVars, routeVars>>

\* ------------------------------------ manager operations running concurrently

\* Callers that run at the same time on the one event loop: each runs one
\* manager operation or route handler at a time, and its steps are the
\* stretches of code between two awaits.
Tasks == 1..MaxTasks

\* The one server name the callers act on.
RouteNames == {Str_fs}

NoTask == [op |-> "none", pc |-> "done", name |-> <<>>, obj |-> 0, ret |-> "none",
           idx |-> 0, list |-> <<>>, detached |-> FALSE]

RoutesIdle ==
    /\ tasks = [t \in Tasks |-> NoTask]
    /\ objects = <<>>
    /\ clientRef = [n \in {} |-> 0]

TaskIdle(t) == tasks[t].pc \in {"done", "raised"}

\* The manager's state as one value, so that the stretches of code below can
\* be chained.
Cur == [tasks |-> tasks, objects |-> objects, clientRef |-> clientRef,
        configs |-> configs, initialized |-> initialized]

Becomes(S) ==
    /\ Len(S.objects) <= MaxObjects
    /\ tasks' = S.tasks
    /\ objects' = S.objects
    /\ clientRef' = S.clientRef
    /\ configs' = S.configs
    /\ initialized' = S.initialized
    /\ UNCHANGED <<clients, order, caPc, caIdx, caTried, auxVars, clientVars>>

Called(S, t, op, n) ==
    [S EXCEPT !.tasks[t] = [NoTask EXCEPT !.op = op, !.pc = "running", !.name = n]]

\* The caller's operation returns or raises: its local variables are gone.
Ended(task, pc, ret) == [NoTask EXCEPT !.op = task.op, !.name = task.name, !.pc = pc, !.ret = ret]

Finish(S, t, ret) == [S EXCEPT !.tasks[t] = Ended(@, "done", ret)]

Raise(S, t, exc) == [S EXCEPT !.tasks[t] = Ended(@, "raised", exc)]

\* MCPClient(config) followed by `await client.connect()` (lines 302-303,
\* 328-329; routes/mcp.py lines 70-71): the client is created and connect()
\* runs up to its first await, with the child spawned or the spawn failing.
NewClient(n, spawn) ==
    [name |-> n, connected |-> FALSE, process |-> IF spawn THEN "Proc" ELSE "None",
     tools |-> <<>>, child |-> IF spawn THEN "alive" ELSE "none"]

StartConnect(S, t, n, spawn) ==
    [S EXCEPT !.objects = Append(@, NewClient(n, spawn)),
              !.tasks[t].pc = "connecting",
              !.tasks[t].name = n,
              !.tasks[t].obj = Len(S.objects) + 1]

\* Line 324: next((c for c in self.configs if c.name == server_name), None).
Configured(cfgs, n) == \E k \in 1..Len(cfgs) : cfgs[k].name = n

\* Lines 324-329 of reconnect(): without a config it returns False, else it
\* creates the client and awaits connect().
Lookup(S, t, n, spawn) ==
    IF Configured(S.configs, n) THEN StartConnect(S, t, n, spawn) ELSE Finish(S, t, "False")

\* Lines 295-303: the for loop runs over the skipped configs to the next one
\* it creates a client for, or to its end (line 310). It iterates the list
\* object it started on, which is self.configs unless that was rebound.
ListOf(S, t) == IF S.tasks[t].detached THEN S.tasks[t].list ELSE S.configs

LoopFrom(S, t, i, spawn) ==
    LET list == ListOf(S, t)
        todo == {k \in i..Len(list) : ~Skips(list[k], S.clientRef)}
    IN  IF todo = {}
        THEN Finish([S EXCEPT !.initialized = TRUE], t, "None")
        ELSE LET k == CHOOSE x \in todo : \A y \in todo : x <= y IN
             [StartConnect(S, t, list[k].name, spawn) EXCEPT !.tasks[t].idx = k]

\* Line 96 of disconnect() up to the await of the cancelled reader task
\* (line 101).
StartDisconnect(S, t, o) ==
    [S EXCEPT !.objects[o].connected = FALSE,
              !.tasks[t].pc = "disc_reader",
              !.tasks[t].obj = o]

\* `del self.clients[name]` (line 322; routes/mcp.py lines 100, 111) raises
\* KeyError when another caller has deleted the key meanwhile.
KeyGone(S, n) == n \notin DOMAIN S.clientRef

\* `self.configs = [...]` (line 254; routes/mcp.py line 114) binds a new
\* list: a connect_all loop in progress keeps iterating the old one.
Rebind(S, cfgs) ==
    [S EXCEPT !.configs = cfgs,
              !.tasks = [u \in Tasks |->
                            IF S.tasks[u].op = "initialize_mcp"
                               /\ S.tasks[u].pc = "connecting"
                               /\ ~S.tasks[u].detached
                            THEN [S.tasks[u] EXCEPT !.detached = TRUE, !.list = S.configs]
                            ELSE S.tasks[u]]]

\* routes/mcp.py line 114: the configs with another name.
Without(cfgs, n) == SelectSeq(cfgs, LAMBDA c : c.name # n)

\* What the caller does once disconnect() has returned: reconnect() deletes
\* the key and goes on to the new client (lines 322-329), the disconnect
\* route deletes the key (routes/mcp.py lines 100-102), the remove route
\* deletes the key and drops the config (lines 111-116).
AfterDisconnect(S, t, spawn) ==
    LET n == S.tasks[t].name
        D == [S EXCEPT !.clientRef = Remove(@, n)]
    IN  IF KeyGone(S, n)
        THEN Raise(S, t, "KeyError")
        ELSE CASE S.tasks[t].op = "reconnect" -> Lookup(D, t, n, spawn)
               [] S.tasks[t].op = "disconnect" -> Finish(D, t, "disconnected")
               [] OTHER -> Finish(Rebind(D, Without(D.configs, n)), t, "removed")

\* What the caller does with what connect() returned: all three register the
\* client on True (lines 304, 330; routes/mcp.py line 72); connect_all goes
\* on with its loop, the others return.
AfterConnect(S, t, ret, spawn) ==
    LET n == S.tasks[t].name
        R == IF Registers(ret)
             THEN [S EXCEPT !.clientRef = Put(@, n, S.tasks[t].obj)]
             ELSE S
    IN  CASE S.tasks[t].op = "initialize_mcp" ->
                 IF ret = "raised" /\ ~ConnectAllCatches(ret)
                 THEN Raise(R, t, "Exception")
                 ELSE LoopFrom([R EXCEPT !.tasks[t].ret = ret], t,
                               NextConfig(S.tasks[t].idx, ret), spawn)
          [] ret = "raised" -> Raise(R, t, "Exception")
          [] S.tasks[t].op = "add_server" ->
                 Finish(R, t, IF ret = "True" THEN "connected" ELSE "added_but_not_connected")
          [] OTHER -> Finish(R, t, ret)

\* reconnect(server_name), also the body of the connect route (lines 319-329;
\* routes/mcp.py line 84), up to its first await.
Reconnect(t, n) ==
    /\ TaskIdle(t)
    /\ \E spawn \in BOOLEAN :
         LET S == Called(Cur, t, "reconnect", n) IN
         Becomes(IF n \in DOMAIN clientRef
                 THEN StartDisconnect(S, t, clientRef[n])
                 ELSE Lookup(S, t, n, spawn))

\* The disconnect route (routes/mcp.py lines 93-99) up to its await.
DisconnectRoute(t, n) ==
    /\ TaskIdle(t)
    /\ LET S == Called(Cur, t, "disconnect", n) IN
       Becomes(IF n \in DOMAIN clientRef
               THEN StartDisconnect(S, t, clientRef[n])
               ELSE Finish(S, t, "404"))

\* The remove route (routes/mcp.py lines 105-116) up to its await, or to its
\* end when no client is registered.
RemoveServerRoute(t, n) ==
    /\ TaskIdle(t)
    /\ LET S == Called(Cur, t, "remove_server", n) IN
       Becomes(IF n \in DOMAIN clientRef
               THEN StartDisconnect(S, t, clientRef[n])
               ELSE Finish(Rebind(S, Without(configs, n)), t, "removed"))

\* The add route (routes/mcp.py lines 51-78) with MCPManager.add_server
\* (lines 289-291), up to the await of connect().
AddServerRoute(t, n, enabled) ==
    /\ TaskIdle(t)
    /\ Len(configs) < MaxConfigs
    /\ \E spawn \in BOOLEAN :
         LET S == Called(Cur, t, "add_server", n)
             A == [S EXCEPT !.configs =
                      Append(@, ConfigOf(n, [command |-> "npx", args |-> <<>>,
                                             env |-> {}, enabled |-> enabled]))]
         IN  Becomes(IF Configured(configs, n)
                     THEN Finish(S, t, "400")
                     ELSE IF enabled
                     THEN StartConnect(A, t, n, spawn)
                     ELSE Finish(A, t, "added"))

\* What an entry of the config file says about a server.
RouteEntries ==
    UNION {{[name |-> n, command |-> "npx"],
            [name |-> n, command |-> "npx", enabled |-> FALSE]} : n \in RouteNames}

\* The config files: none, a list of up to MaxServers entries (nothing keeps
\* an operator from writing a name twice), or a name-keyed dict.
RouteFiles ==
    {NoFile}
        \cup UNION {{[shape |-> "array", data |-> [mcpServers |-> ArrayDoc(q)]] :
                        q \in [1..k -> RouteEntries]} : k \in 0..MaxServers}
        \cup {[shape |-> "keyed", data |-> [mcpServers |-> KeyedDoc(<<e>>)]] :
                e \in RouteEntries}

\* initialize_mcp() (lines 395-403): load_config_from_file (lines 245-287),
\* then connect_all() (lines 293-310) up to its first await.
InitializeMcp(t, f) ==
    /\ TaskIdle(t)
    /\ \E spawn \in BOOLEAN :
         LET S == Called(Cur, t, "initialize_mcp", <<>>)
             L == IF f = NoFile THEN S ELSE Rebind(S, LoadResult(f.data))
         IN  Becomes(LoopFrom(L, t, 1, spawn))

\* connect() returns to the caller that awaits it (lines 303, 329;
\* routes/mcp.py line 71).
ConnectReturns(t) ==
    /\ tasks[t].pc = "connecting"
    /\ \E spawn \in BOOLEAN :
       \E r \in {ConnectResult(b) :
                    b \in {x \in Behaviours :
                              x.spawn = (objects[tasks[t].obj].process = "Proc")}} :
         LET o == tasks[t].obj
             c == ClientOf(objects[o].name, r)
             S == [Cur EXCEPT !.objects[o] =
                      [c EXCEPT !.child = IF objects[o].child = "exited"
                                          THEN "exited" ELSE @]]
         IN  Becomes(AfterConnect(S, t, r.ret, spawn))

\* disconnect() after the await of the reader task (lines 105-108): with a
\* process it calls terminate(), which may raise ProcessLookupError on a child
\* that has exited, and awaits wait(); without one it ends at lines 113-114.
DisconnectAfterReaderTask(t) ==
    /\ tasks[t].pc = "disc_reader"
    /\ \E spawn, raises \in BOOLEAN :
         LET o == tasks[t].obj IN
         IF NeedsTerminate(objects[o].process)
         THEN IF raises
              THEN /\ objects[o].child = "exited"
                   /\ Becomes(Raise(Cur, t, "ProcessLookupError"))
              ELSE /\ ~spawn
                   /\ Becomes([Cur EXCEPT !.tasks[t].pc = "disc_wait"])
         ELSE /\ ~raises
              /\ Becomes(AfterDisconnect([Cur EXCEPT !.objects[o].tools = <<>>], t, spawn))

\* disconnect() after wait() returned or the child was killed (lines 108-114),
\* and the caller's code that follows it.
DisconnectAfterWaitTask(t) ==
    /\ tasks[t].pc = "disc_wait"
    /\ \E spawn \in BOOLEAN :
         LET o == tasks[t].obj IN
         Becomes(AfterDisconnect([Cur EXCEPT !.objects[o] = Released(@)], t, spawn))

\* The subprocess of a client exits on its own.
ChildOfObjectExits(o) ==
    /\ o \in 1..Len(objects)
    /\ objects[o].child = "alive"
    /\ Becomes([Cur EXCEPT !.objects[o].child = "exited"])

\* ---------------------------------------------------------- specifications

Init == ClientInit /\ ManagerIdle /\ RegistryIdle /\ NamesIdle /\ LoadIdle /\ RoutesIdle

Next ==
    \/ ConnectSpawn
    \/ \E i \in Ids : DrainOk(i)
    \/ \E i \in Ids : DrainRaise(i)
    \/ \E i \in Ids : TimeoutFire(i)
    \/ \E i \in Ids : Resume(i)
    \/ NotifDrainOk
    \/ NotifDrainRaise
    \/ ReaderStep
    \/ ReaderEOF
    \/ ChildRead
    \/ ChildEmit
    \/ ChildExit
    \/ call_tool
    \/ list_resources
    \/ read_resource
    \/ DisconnectBegin
    \/ DisconnectAfterReader
    \/ DisconnectAfterWait

Spec == Init /\ [][Next]_vars

ManagerNext ==
    \/ ConnectAllStart
    \/ ConnectAllStep
    \/ ConnectAllReturn
    \/ GetServerStatus

\* The event loop runs every callback and coroutine that is ready: a timer
\* that is due fires, a sender whose future is done or whose drain() can
\* return resumes, the reader reads what is there, an awaited wait() ends.
\* Nothing makes the child read its stdin or answer.
Fairness ==
    /\ \A i \in Ids : /\ WF_vars(DrainOk(i))
                      /\ WF_vars(DrainRaise(i))
                      /\ WF_vars(TimeoutFire(i))
                      /\ WF_vars(Resume(i))
    /\ WF_vars(NotifDrainOk)
    /\ WF_vars(ReaderStep)
    /\ WF_vars(ReaderEOF)
    /\ WF_vars(DisconnectAfterReader)
    /\ WF_vars(DisconnectAfterWait)

SpecFair == Init /\ [][Next]_vars /\ Fairness

InitManager == ClientInit /\ ManagerInit /\ RegistryIdle /\ NamesIdle /\ LoadIdle /\ RoutesIdle

SpecManager == InitManager /\ [][ManagerNext]_vars

\* The manager's operations on the registry, called one after another on a
\* manager that holds any config list.
InitRegistry == ClientInit /\ ManagerInit /\ RegistryIdle /\ NamesIdle /\ LoadIdle /\ RoutesIdle

RegistryNext ==
    \/ \E n \in Names : ReconnectBegin(n)
    \/ ReconnectReturn
    \/ DisconnectAllStart
    \/ DisconnectAllStep
    \/ \E n \in Names : ProviderExit(n)
    \/ \E q \in CallNames : ManagerCallTool(q)
    \/ GetToolsForLLM
    \/ GetServerStatus

SpecRegistry == InitRegistry /\ [][RegistryNext]_vars

\* Building and parsing a qualified name, for every pair of names.
InitNames == ClientInit /\ ManagerIdle /\ RegistryIdle /\ NamesInit /\ LoadIdle /\ RoutesIdle

NamesNext == Qualify \/ Dequalify

SpecNames == InitNames /\ [][NamesNext]_vars

\* Loading the config file, for every set of servers and every shape.
InitLoad == ClientInit /\ ManagerIdle /\ RegistryIdle /\ NamesIdle /\ LoadInit /\ RoutesIdle

LoadNext == WriteFile \/ load_config_from_file

SpecLoad == InitLoad /\ [][LoadNext]_vars

\* The manager's operations and the routes called by concurrent callers.
InitRoutes == ClientInit /\ ManagerIdle /\ RegistryIdle /\ NamesIdle /\ LoadIdle /\ RoutesIdle

RoutesNext ==
    \/ \E t \in Tasks, n \in RouteNames : Reconnect(t, n)
    \/ \E t \in Tasks, n \in RouteNames : DisconnectRoute(t, n)
    \/ \E t \in Tasks, n \in RouteNames : RemoveServerRoute(t, n)
    \/ \E t \in Tasks, n \in RouteNames, e \in BOOLEAN : AddServerRoute(t, n, e)
    \/ \E t \in Tasks, f \in RouteFiles : InitializeMcp(t, f)
    \/ \E t \in Tasks : ConnectReturns(t)
    \/ \E t \in Tasks : DisconnectAfterReaderTask(t)
    \/ \E t \in Tasks : DisconnectAfterWaitTask(t)
    \/ \E o \in 1..MaxObjects : ChildOfObjectExits(o)

SpecRoutes == InitRoutes /\ [][RoutesNext]_vars

\* -------------------------------------------------------------- properties

\* The reader takes the line at the head of stdout in this step.
ReaderTakes(line) ==
    /\ readTask = "running"
    /\ stdout # <<>>
    /\ Head(stdout) = line
    /\ stdout' = Tail(stdout)

ReplyLines == {l \in Lines : l.id \in Ids}

InFlight(r) == r.st \in {"drain", "wait", "expired"}

\* C1: for every request id at most one outcome is delivered to the caller and
\* its future is resolved at most once; a future that holds a reply was
\* resolved exactly once; and a reply carrying the id of a request that was
\* already resolved is dropped: the reader changes no request, leaves the
\* pending table alone and keeps running.
C1_AtMostOneOutcome ==
    /\ [](\A i \in Ids :
            /\ req[i].ndel <= 1
            /\ req[i].nres <= 1
            /\ (req[i].st = "done") = (req[i].ndel = 1)
            /\ (req[i].fut \in {"result", "exception"}) = (req[i].nres = 1)
            /\ req[i].outcome \in {"success", "remote_error"} => req[i].nres = 1)
    /\ [][\A l \in ReplyLines :
            (ReaderTakes(l) /\ req[l.id].nres >= 1)
                => (req' = req /\ pending' = pending /\ readTask' = readTask)]_vars

\* C1 witness: a request got its reply, its caller got the result, and a
\* second reply with the same id is waiting for the running reader.
C1_Witness ==
    \E i \in Ids :
        /\ req[i].outcome = "success"
        /\ req[i].nres = 1
        /\ readTask = "running"
        /\ stdout # <<>>
        /\ Head(stdout).kind # "junk"
        /\ Head(stdout).id = i

\* C2: a request that ended in a timeout has no entry in the pending table
\* and its caller holds the timeout failure for good; a reply for that id
\* read afterwards changes no request (neither the timed-out one nor any
\* other), leaves the pending table alone and does not stop the reader.
C2_TimeoutEvictsAndLateReplyDropped ==
    /\ [](\A i \in Ids :
            req[i].outcome = "timeout"
                => (i \notin pending /\ req[i].st = "done" /\ req[i].nres = 0))
    /\ [][\A i \in Ids : req[i].outcome = "timeout" => req'[i] = req[i]]_vars
    /\ [][\A l \in ReplyLines :
            (ReaderTakes(l) /\ req[l.id].outcome = "timeout")
                => (req' = req /\ pending' = pending /\ readTask' = readTask)]_vars

\* C2 witness: a request has timed out and a reply for its id is waiting for
\* the running reader.
C2_Witness ==
    \E i \in Ids :
        /\ req[i].outcome = "timeout"
        /\ readTask = "running"
        /\ stdout # <<>>
        /\ Head(stdout).kind # "junk"
        /\ Head(stdout).id = i

\* C3: a future only ever holds the reply that carried its own id; and when
\* the reader takes a reply whose id is pending and unresolved, that request
\* is resolved in that step whatever else is pending, and no other request
\* changes.
C3_RepliesCorrelatedById ==
    /\ [](\A i \in Ids : req[i].fut \in {"result", "exception"} => req[i].tag = i)
    /\ [][\A l \in ReplyLines :
            (ReaderTakes(l) /\ l.id \in pending /\ req[l.id].fut = "pending")
                => /\ req'[l.id].fut = (IF l.kind = "error" THEN "exception" ELSE "result")
                   /\ req'[l.id].kind = l.kind
                   /\ \A j \in Ids \ {l.id} : req'[j] = req[j]]_vars

\* C3 witness: two requests were in flight together and the later one got its
\* result while the earlier one is still waiting.
C3_Witness ==
    \E i, j \in Ids :
        /\ i < j
        /\ req[i].st = "wait"
        /\ req[i].fut = "pending"
        /\ req[j].outcome = "success"

\* C4: every request that was sent eventually returns to its caller, with a
\* result, a remote error, a write failure or its timeout.
C4_EveryRequestReturns ==
    \A i \in Ids : InFlight(req[i]) ~> (req[i].st = "done")

\* C5: connect() never raises: whenever it has ended it has returned True or
\* False, and every exception it met (spawn failure, failed write, error
\* reply, timeout) ended in the return value False.
C5_ConnectNeverRaises ==
    /\ connectRet # "raised"
    /\ cpc = "done" => connectRet \in {"True", "False"}
    /\ connectExc # "none" => (cpc = "done" /\ connectRet = "False")

\* C5 witness: the handshake timed out and connect() returned False.
C5_Witness ==
    /\ cpc = "done"
    /\ connectExc = "timeout"
    /\ connectRet = "False"

\* The request connect() sent with method m has ended with an outcome in outs.
EndedWith(m, outs) ==
    \E i \in Ids : req[i].method = m /\ req[i].st = "done" /\ req[i].outcome \in outs

NotificationSent ==
    \E k \in 1..Len(written) : written[k].method = "notifications/initialized"

\* C6 as claimed: connect() returns True only when the spawn, the initialize
\* request, the initialized notification and the tools/list discovery all
\* succeeded.
C6_TrueOnlyIfEveryStepSucceeded ==
    (cpc = "done" /\ connectRet = "True")
        => /\ EndedWith("initialize", {"success"})
           /\ NotificationSent
           /\ EndedWith("tools/list", {"success"})

\* C6 amended: connect() returns False whenever the spawn, the initialize
\* request or the initialized notification fails (or initialize answers with
\* an empty result), and returns True only when those three succeeded; once
\* discovery was started connect() returns True however tools/list ended.
C6_TrueIffHandshakeSucceeded ==
    cpc = "done" =>
        /\ connectRet \in {"True", "False"}
        /\ connectRet = "True"
            => /\ connectExc = "none"
               /\ \E i \in Ids : /\ req[i].method = "initialize"
                                 /\ req[i].outcome = "success"
                                 /\ req[i].kind # "falsy"
               /\ NotificationSent
        /\ ( \/ connectExc # "none"
             \/ EndedWith("initialize", {"remote_error", "timeout", "write_error"})
             \/ \E i \in Ids : /\ req[i].method = "initialize"
                               /\ req[i].outcome = "success"
                               /\ req[i].kind = "falsy" )
            => connectRet = "False"
        /\ EndedWith("tools/list", {"success", "remote_error", "timeout", "write_error"})
            => connectRet = "True"

\* C6 witness: discovery timed out and connect() returned True.
C6_Witness ==
    /\ cpc = "done"
    /\ connectRet = "True"
    /\ EndedWith("tools/list", {"timeout"})

\* C7: every tools/call, resources/list or resources/read message written to
\* the child comes after the initialized notification in the byte stream, and
\* is written only once initialize has been answered with a successful result.
C7_NoCallBeforeHandshake ==
    \A k \in 1..Len(written) :
        written[k].method \in CallMethods
            => /\ \E j \in 1..(k - 1) : written[j].method = "notifications/initialized"
               /\ EndedWith("initialize", {"success"})

\* C7 witness: a tools/call request was written to the child.
C7_Witness ==
    \E k \in 1..Len(written) : written[k].method = "tools/call"

\* C8: a call_tool made while the connected flag is false writes nothing,
\* takes no request id, leaves the pending table and every request alone, and
\* fails at once with the not-connected error.
C8_CallToolRefusedWhenNotConnected ==
    [][(~connected /\ call_tool)
        => /\ written' = written
           /\ unread' = unread
           /\ request_id' = request_id
           /\ pending' = pending
           /\ req' = req
           /\ lastCall' = [method |-> "tools/call", result |-> "not_connected"]]_vars

\* C8 witness: call_tool was refused on a client whose connect() failed with
\* its subprocess still there.
C8_Witness ==
    /\ lastCall = [method |-> "tools/call", result |-> "not_connected"]
    /\ ~connected
    /\ process = "Proc"
    /\ connectRet = "False"

\* A client on which disconnect() has nothing left to do: never connected,
\* or already disconnected.
Disconnected ==
    /\ ~connected
    /\ process = "None"
    /\ tools = <<>>
    /\ readTask # "running"
    /\ dpc = "idle"
    /\ cpc \in {"new", "done"}

\* C9: on a never-connected or already-disconnected client disconnect() can
\* be called, and every such call ends without raising and leaves the client
\* as it was: connected false, no process, empty tool list.
C9_DisconnectIdempotent ==
    Disconnected =>
        /\ ENABLED DisconnectBegin
        /\ ~ ENABLED (DisconnectBegin /\ ~( /\ discResult' = "ok"
                                           /\ dpc' = "idle"
                                           /\ connected' = FALSE
                                           /\ process' = "None"
                                           /\ tools' = <<>>
                                           /\ readTask' = readTask
                                           /\ pending' = pending
                                           /\ req' = req ))

\* C9 witness: a client that was connected has been disconnected, so that a
\* further disconnect() is a call on an already-disconnected client.
C9_Witness ==
    /\ Disconnected
    /\ connectRet = "True"
    /\ discResult = "ok"

Tried == DOMAIN caTried

\* C10: connect_all() never raises, and when it has ended: every enabled
\* config was tried unless an earlier config of the same name had connected;
\* every config whose connect() returned True is registered under its name;
\* and nothing is registered under a name no connect() succeeded for.
C10_ConnectAllContinuesPastFailure ==
    /\ caPc # "raised"
    /\ caPc = "done" =>
        /\ initialized
        /\ \A k \in 1..Len(configs) :
             configs[k].enabled
                => \/ k \in Tried
                   \/ \E j \in Tried : /\ j < k
                                       /\ configs[j].name = configs[k].name
                                       /\ caTried[j] = "True"
        /\ \A k \in Tried :
             /\ caTried[k] \in {"True", "False"}
             /\ caTried[k] = "True" => configs[k].name \in DOMAIN clients
        /\ \A n \in DOMAIN clients :
             \E k \in Tried : configs[k].name = n /\ caTried[k] = "True"

\* C10 witness: connect_all() has ended, one server failed to connect and a
\* server after it in the list connected and is registered.
C10_Witness ==
    /\ caPc = "done"
    /\ \E j, k \in Tried :
         /\ j < k
         /\ caTried[j] = "False"
         /\ caTried[k] = "True"
         /\ configs[j].name \notin DOMAIN clients
         /\ configs[k].name \in DOMAIN clients

\* C11: connect_all() creates a client (and so spawns a process) only for
\* configs that are enabled, and every client it registers was connected for
\* an enabled config of that name.
C11_DisabledNeverConnected ==
    /\ \A k \in Tried : configs[k].enabled
    /\ caPc = "connecting" => configs[caIdx].enabled
    /\ \A n \in DOMAIN clients :
         \E k \in Tried : /\ configs[k].name = n
                           /\ configs[k].enabled
                           /\ caTried[k] = "True"

\* C11 witness: connect_all() has ended, it connected an enabled server and
\* passed over a disabled one whose name stayed out of the registry.
C11_Witness ==
    /\ caPc = "done"
    /\ \E j, k \in 1..Len(configs) :
         /\ ~configs[j].enabled
         /\ j \notin Tried
         /\ configs[j].name \notin DOMAIN clients
         /\ configs[k].enabled
         /\ configs[k].name \in DOMAIN clients

\* C12: MCPManager.call_tool raises its own error, hands nothing to any
\* client and leaves the registry as it was, when the name does not start
\* with "mcp_", when what follows the prefix holds no "_", or when the server
\* part names no registered client.
C12_CallToolRejectsBadNames ==
    [][\A q \in CallNames :
         ManagerCallTool(q) =>
            LET rest == Drop(q, PrefixLen)
                bad == IF q # Prefix \o rest THEN "invalid_name"
                       ELSE IF ~HasSep(rest) THEN "invalid_format"
                       ELSE IF SubSeq(rest, 1, FirstSep(rest) - 1) \notin DOMAIN clients
                       THEN "server_not_connected"
                       ELSE "none"
            IN  bad # "none" =>
                    /\ mgrOp'.pc = "raised"
                    /\ mgrOp'.error = bad
                    /\ mgrOp'.result = "none"
                    /\ clients' = clients
                    /\ order' = order]_vars

\* C12 witness: with a client registered, call_tool was refused for a name
\* whose server part is not in the registry.
C12_Witness ==
    /\ mgrOp.op = "call_tool"
    /\ mgrOp.error = "server_not_connected"
    /\ mgrOp.pc = "raised"
    /\ DOMAIN clients # {}

\* C13: for every server name without "_" and every tool name, with or
\* without "_", the name "mcp_" + server + "_" + tool is parsed by call_tool
\* without error into exactly that server name and that tool name.
C13_RoundTrip ==
    (nameCase.pc = "parsed" /\ \A k \in 1..Len(nameCase.server_name) :
                                  nameCase.server_name[k] # "_")
        => /\ nameCase.parsed.error = "none"
           /\ nameCase.parsed.server_name = nameCase.server_name
           /\ nameCase.parsed.tool_name = nameCase.name

\* C13 witness: a name built from a server name without "_" and a tool name
\* that holds "_" has been parsed.
C13_Witness ==
    /\ nameCase.pc = "parsed"
    /\ nameCase.server_name = <<"a", "b">>
    /\ nameCase.name = <<"a", "_", "b">>

\* C14: whenever call_tool is called with a name that get_tools_for_llm()
\* advertises at that moment, the name is parsed into the server name and the
\* tool name the entry was built from, and the call is handed to that
\* server's client under that tool name.
C14_AdvertisedNamesParseBack ==
    [][\A k \in 1..Len(get_tools_for_llm(order, clients)) :
         LET e == get_tools_for_llm(order, clients)[k] IN
         ManagerCallTool(e.name)
            => /\ mgrOp'.error = "none"
               /\ mgrOp'.server_name = e.server_name
               /\ mgrOp'.tool_name = e.tool]_vars

RECURSIVE CatalogSizes(_, _)
CatalogSizes(S, reg) ==
    IF S = {}
    THEN 0
    ELSE LET n == CHOOSE x \in S : TRUE IN Len(reg[n].tools) + CatalogSizes(S \ {n}, reg)

\* C15: the list get_tools_for_llm() returns is as long as the tool lists of
\* all registered clients together, and every entry's name starts with
\* "mcp_" + the name of a registered server + "_".
C15_ToolListCoversRegistry ==
    [][GetToolsForLLM =>
        /\ Len(mgrOp'.llm_tools) = CatalogSizes(DOMAIN clients, clients)
        /\ \A k \in 1..Len(mgrOp'.llm_tools) :
             \E n \in DOMAIN clients :
                StartsWith(mgrOp'.llm_tools[k].name, Prefix \o n \o <<"_">>)]_vars

\* C15 witness: get_tools_for_llm() returned the tools of two registered
\* clients, both with tools.
C15_Witness ==
    /\ mgrOp.op = "get_tools_for_llm"
    /\ Cardinality(DOMAIN clients) = 2
    /\ \A n \in DOMAIN clients : clients[n].tools # <<>>
    /\ Len(mgrOp.llm_tools) = 2 * Len(Catalog)

\* C16: get_server_status() changes nothing of the manager or its clients
\* and returns one entry per config, in order: the config's name and enabled
\* flag, connected exactly when the name is a key of the registry, and
\* tools_count the length of that client's tool list, 0 without a client. A
\* config whose connect() returned False, with no config of the same name
\* connected, is reported not connected with tools_count 0.
C16_StatusIsReadOnlySnapshot ==
    [][GetServerStatus =>
        /\ UNCHANGED <<configs, clients, order, initialized, caPc, caIdx, caTried, clientVars, routeVars>>
        /\ mgrOp'.status.initialized = initialized
        /\ LET sv == mgrOp'.status.servers IN
           /\ Len(sv) = Len(configs)
           /\ \A k \in 1..Len(configs) :
                /\ sv[k].name = configs[k].name
                /\ sv[k].enabled = configs[k].enabled
                /\ sv[k].connected = (configs[k].name \in DOMAIN clients)
                /\ sv[k].tools_count = (IF configs[k].name \in DOMAIN clients
                                        THEN Len(clients[configs[k].name].tools) ELSE 0)
           /\ \A k \in Tried :
                (/\ caTried[k] = "False"
                 /\ \A j \in Tried : configs[j].name = configs[k].name => caTried[j] # "True")
                    => (~sv[k].connected /\ sv[k].tools_count = 0)]_vars

\* C16 witness: after connect_all() the status reports a server whose
\* connect() failed as not connected with no tools, next to a connected
\* server with its tools.
C16_Witness ==
    /\ mgrOp.op = "get_server_status"
    /\ caPc = "done"
    /\ \E j, k \in Tried :
         /\ caTried[k] = "False"
         /\ ~mgrOp.status.servers[k].connected
         /\ mgrOp.status.servers[k].tools_count = 0
         /\ mgrOp.status.servers[j].connected
         /\ mgrOp.status.servers[j].tools_count = Len(Catalog)

ArrayShapes == {"array", "servers"}

\* C17: for one set of servers, the loads of the array-shaped document (under
\* either key) and of the name-keyed document gave the same set of configs,
\* whatever the order of the entries; and the configs loaded from a document
\* never hold one name twice.
C17_ShapesLoadTheSame ==
    /\ \A a \in DOMAIN seen \cap ArrayShapes :
         \A b \in DOMAIN seen \cap (ArrayShapes \cup {"keyed"}) : seen[a] = seen[b]
    /\ \A i, j \in 1..Len(configs) : i # j => configs[i].name # configs[j].name

\* C17 witness: two servers, one of them disabled and one with every
\* optional field left out, were loaded from the array-shaped and from the
\* name-keyed document.
C17_Witness ==
    /\ {"array", "keyed"} \subseteq DOMAIN seen
    /\ Cardinality(seen["keyed"]) = 2
    /\ \E c \in seen["keyed"] : ~c.enabled
    /\ \E d \in serverSet : DOMAIN d = {"name", "command"}

\* C18: when reconnect(name) has returned, the client that was registered
\* under name before the call has been disconnected and the registry no
\* longer holds it; the call returned True exactly when name is configured
\* and the new client's connect() succeeded, and then the registry holds the
\* new client under name; when it returned False the registry holds no
\* client under name.
C18_ReconnectReplacesClient ==
    (mgrOp.op = "reconnect" /\ mgrOp.pc = "done") =>
        /\ mgrOp.hadOld => /\ ~mgrOp.old.connected
                           /\ mgrOp.old.process = "None"
                           /\ mgrOp.old.tools = <<>>
        /\ mgrOp.ret \in {"True", "False"}
        /\ (mgrOp.ret = "True") =
              (HasConfig(mgrOp.name) /\ "fresh" \in DOMAIN mgrOp /\ mgrOp.fresh.connected)
        /\ mgrOp.ret = "True" =>
              /\ mgrOp.name \in DOMAIN clients
              /\ [clients[mgrOp.name] EXCEPT !.child = "alive"] = mgrOp.fresh
        /\ mgrOp.ret = "False" => mgrOp.name \notin DOMAIN clients

\* C18 witness: reconnect() found a connected client under the name,
\* disconnected it and registered a new one.
C18_Witness ==
    /\ mgrOp.op = "reconnect"
    /\ mgrOp.pc = "done"
    /\ mgrOp.hadOld
    /\ mgrOp.old.child = "exited"
    /\ mgrOp.ret = "True"
    /\ clients[mgrOp.name].child = "alive"

\* C19: when disconnect_all() has returned, every client the registry held
\* at the call has been disconnected (its process terminated and the handle
\* dropped, connected false, tool list empty), the registry is empty and the
\* manager is no longer initialized.
C19_DisconnectAllEmptiesRegistry ==
    (mgrOp.op = "disconnect_all" /\ mgrOp.pc = "done") =>
        /\ DOMAIN mgrOp.released = AsSet(mgrOp.before)
        /\ \A n \in DOMAIN mgrOp.released :
             /\ ~mgrOp.released[n].connected
             /\ mgrOp.released[n].process = "None"
             /\ mgrOp.released[n].child = "exited"
             /\ mgrOp.released[n].tools = <<>>
        /\ DOMAIN clients = {}
        /\ order = <<>>
        /\ ~initialized

\* C19 witness: disconnect_all() has returned after disconnecting two
\* registered clients.
C19_Witness ==
    /\ mgrOp.op = "disconnect_all"
    /\ mgrOp.pc = "done"
    /\ Len(mgrOp.before) = 2
    /\ DOMAIN clients = {}

\* A line that is no reply to a waiting request: text that is not JSON, JSON
\* that is no response envelope, or a reply whose id has no pending entry.
Malformed(l) == l.id \notin Ids \/ l.id \notin pending

\* C20: the reader drops every malformed line: taking it changes neither the
\* pending table nor any request, and the reader keeps running; the reader
\* stops only at the end of the child's output or when disconnect() cancels
\* it.
C20_ReaderDropsMalformedLines ==
    /\ [][\A l \in Lines :
            (ReaderTakes(l) /\ Malformed(l))
                => (pending' = pending /\ req' = req /\ readTask' = "running")]_vars
    /\ [][(readTask = "running" /\ readTask' # "running")
            => (ReaderEOF \/ DisconnectBegin)]_vars

\* C21: a tools/call request answered with an error object ends for its caller
\* with the remote error, and one answered without an error field ends with
\* the reply's result payload, unchanged: the reader stores the answer of the
\* line under the request it is addressed to, and the sender that wakes up on
\* a resolved future delivers that answer.
C21_RemoteErrorOrResult ==
    /\ [][\A l \in ReplyLines :
            (/\ ReaderTakes(l)
             /\ l.id \in pending
             /\ req[l.id].method = "tools/call"
             /\ req[l.id].fut = "pending")
                => /\ req'[l.id].fut = (IF l.kind = "error" THEN "exception" ELSE "result")
                   /\ req'[l.id].kind = l.kind
                   /\ req'[l.id].tag = l.id]_vars
    /\ [][\A i \in Ids :
            (/\ req[i].method = "tools/call"
             /\ req[i].st = "wait"
             /\ req[i].fut \in {"result", "exception"}
             /\ req'[i].st = "done")
                => /\ req'[i].outcome =
                        (IF req[i].kind = "error" THEN "remote_error" ELSE "success")
                   /\ req'[i].kind = req[i].kind
                   /\ req'[i].tag = i]_vars

\* C21 witness: a tools/call was answered with an error object and its caller
\* got the remote error.
C21_Witness ==
    \E i \in Ids :
        /\ req[i].method = "tools/call"
        /\ req[i].st = "done"
        /\ req[i].outcome = "remote_error"
        /\ req[i].kind = "error"
        /\ req[i].tag = i

\* C22: within one Client the ids of the requests written are strictly
\* increasing and never repeat, whatever happened to earlier requests; and the
\* id is taken, its pending entry registered and the request written in one
\* step, the entry being the only one added and its id the new counter value.
C22_IdsIncreaseAndRegisterAtomically ==
    /\ [](/\ \A j, k \in 1..Len(written) :
                (j < k /\ written[j].id # 0 /\ written[k].id # 0)
                    => written[j].id < written[k].id
          /\ \A k \in 1..Len(written) : written[k].id <= request_id
          /\ pending \subseteq 1..request_id)
    /\ [][/\ request_id' >= request_id
          /\ pending' \ pending \subseteq {request_id'}
          /\ (request_id' # request_id)
                => /\ request_id' \notin pending
                   /\ request_id' \in pending'
                   /\ req[request_id'] = NoReq
                   /\ req'[request_id'].st = "drain"
                   /\ written' = Append(written, [id |-> request_id',
                                                  method |-> req'[request_id'].method])
          /\ (request_id' = request_id)
                => \A k \in 1..Len(written') : k > Len(written) => written'[k].id = 0]_vars

\* C22 witness: a request timed out and a request issued after it, with a
\* larger id, is waiting under its own pending entry.
C22_Witness ==
    \E i, j \in Ids :
        /\ i < j
        /\ req[i].outcome = "timeout"
        /\ i \notin pending
        /\ InFlight(req[j])
        /\ j \in pending
        /\ written[Len(written)].id = j

\* C25: once a request call has returned or raised, for whatever reason, the
\* pending table holds no entry under its id: every id in the table belongs
\* to a request whose caller is still waiting.
C25_PendingHoldsOnlyWaitingCallers ==
    \A i \in Ids : i \in pending => InFlight(req[i])

\* The place of the first message with method m in the log of what was
\* written to the child, 0 when there is none.
WrittenAt(m) ==
    IF \E k \in 1..Len(written) : written[k].method = m
    THEN CHOOSE k \in 1..Len(written) :
            /\ written[k].method = m
            /\ \A j \in 1..(k - 1) : written[j].method # m
    ELSE 0

\* The initialize request got a reply without an error field.
InitializeReplied ==
    \E i \in Ids : /\ req[i].method = "initialize"
                   /\ req[i].outcome = "success"
                   /\ req[i].nres = 1

\* C27: connect() starts the reader before it writes the initialize request,
\* and its steps come in the order initialize request, successful reply,
\* initialized notification, connected = true, tools/list request; connected
\* is never true before the initialize reply was received.
C27_ConnectOrder ==
    /\ [](/\ written # <<>> => (readTask # "none" /\ written[1].method = "initialize")
          /\ WrittenAt("notifications/initialized") # 0
                => (WrittenAt("notifications/initialized") = 2 /\ InitializeReplied)
          /\ WrittenAt("tools/list") # 0 => WrittenAt("tools/list") = 3
          /\ connected => (InitializeReplied /\ WrittenAt("notifications/initialized") = 2))
    /\ [][(connected' /\ ~connected)
            => /\ InitializeReplied
               /\ WrittenAt("notifications/initialized") = 2
               /\ WrittenAt("tools/list") = 0
               /\ WrittenAt("tools/list")' = 3]_vars
    /\ [][(readTask = "none" /\ readTask' # "none") => written = <<>>]_vars

\* C27 witness: connect() went through all its steps: the three messages are
\* written in order and connected is true.
C27_Witness ==
    /\ connected
    /\ Len(written) >= 3
    /\ written[1].method = "initialize"
    /\ written[2].method = "notifications/initialized"
    /\ written[3].method = "tools/list"
    /\ InitializeReplied

\* C28: whenever the initialize request got a successful (non-error) reply,
\* whatever its result payload, connect() has written the initialized
\* notification and goes on to set connected and discover the tools: it does
\* not end with False.
C28_SuccessfulReplyCompletesHandshake ==
    InitializeReplied
        => /\ NotificationSent
           /\ ~(cpc = "done" /\ connectRet = "False" /\ connectExc = "none")

\* C29: a reply taken by the reader for a request whose wait has timed out and
\* whose sender has not yet evicted the pending entry does not stop the
\* reader and touches no other request: the reader keeps running and every
\* other request and pending entry is as before.
C29_LateReplyKeepsReaderRunning ==
    [][\A l \in ReplyLines :
        (/\ ReaderTakes(l)
         /\ l.id \in pending
         /\ req[l.id].st = "expired")
            => /\ readTask' = "running"
               /\ \A j \in Ids \ {l.id} :
                    /\ req'[j] = req[j]
                    /\ (j \in pending') = (j \in pending)]_vars

\* C24: qualified names are unique over the aggregated catalog: two entries of
\* get_tools_for_llm() built from different (server, tool) pairs never have
\* the same qualified name.
C24_QualifiedNamesUnique ==
    LET llm == get_tools_for_llm(order, clients) IN
    \A j, k \in 1..Len(llm) :
        (llm[j].server_name # llm[k].server_name \/ llm[j].tool # llm[k].tool)
            => llm[j].name # llm[k].name

\* C23: server names are a key of the Manager's config list: whatever loads,
\* additions and removals have happened, no two configs it holds have the
\* same name.
C23_ConfigNamesUnique ==
    \A i, j \in 1..Len(configs) : i # j => configs[i].name # configs[j].name

\* connect() has just returned to caller t for the client at place o.
ConnectReturned(t, o) ==
    /\ tasks[t].pc = "connecting"
    /\ tasks[t].obj = o
    /\ tasks'[t].pc # "connecting" \/ tasks'[t].obj # o

\* C26: when connect() returns False for a client whose subprocess was
\* spawned, that subprocess does not stay alive: at the return the child of
\* the client, which its caller does not register, is no longer running.
C26_FailedConnectLeavesNothingRunning ==
    [][\A t \in Tasks : \A o \in 1..Len(objects) :
         (/\ ConnectReturned(t, o)
          /\ objects[o].process = "Proc"
          /\ ~objects'[o].connected)
            => objects'[o].child # "alive"]_vars

\* No caller is inside an operation.
AllReturned == \A t \in Tasks : TaskIdle(t)

\* The connected clients named n, registered or not, whose subprocess runs.
LiveClients(n) ==
    {o \in 1..Len(objects) :
        objects[o].name = n /\ objects[o].connected /\ objects[o].child = "alive"}

\* C30: whatever the interleaving of initialize_mcp/connect_all, reconnect and
\* the add, connect, disconnect and remove routes on one server name, once
\* all of them have returned at most one connected client with a live
\* subprocess exists for the name and it is the one the registry holds; and a
\* connected client is never replaced in the registry by another one.
C30_OneLiveClientPerName ==
    /\ [](AllReturned =>
            \A n \in RouteNames :
                /\ Cardinality(LiveClients(n)) <= 1
                /\ \A o \in LiveClients(n) : n \in DOMAIN clientRef /\ clientRef[n] = o)
    /\ [][\A n \in DOMAIN clientRef \cap DOMAIN clientRef' :
            clientRef'[n] # clientRef[n] => ~objects[clientRef[n]].connected]_vars

\* C31: callers that overlap on one name and each remove the same registered
\* client (two reconnects, or a reconnect and the disconnect or remove route)
\* all complete without raising: none of them ends on the KeyError of a
\* deletion that finds the key gone.
C31_OverlappingRemovalsDoNotRaise ==
    \A t \in Tasks : ~(tasks[t].pc = "raised" /\ tasks[t].ret = "KeyError")

\* C32: once disconnect() has returned, the reader task has finished, the
\* process handle is released, the tool list is empty and connected is
\* false; and the subprocess is asked to terminate only with the reader
\* already cancelled and finished.
C32_DisconnectReleasesEverything ==
    /\ [][((DisconnectBegin \/ DisconnectAfterReader \/ DisconnectAfterWait)
              /\ dpc' = "idle" /\ discResult' = "ok")
            => /\ readTask' # "running"
               /\ process' = "None"
               /\ tools' = <<>>
               /\ ~connected']_vars
    /\ [][(dpc # "wait" /\ dpc' = "wait")
            => /\ readTask # "running"
               /\ readTask' # "running"
               /\ ~connected']_vars

\* C32 witness: a client that had connected and discovered its tools has
\* been disconnected: the reader is done, the child gone, the list empty.
C32_Witness ==
    /\ connectRet = "True"
    /\ \E i \in Ids : /\ req[i].method = "tools/list"
                      /\ req[i].outcome = "success"
                      /\ req[i].kind = "result"
    /\ dpc = "idle"
    /\ discResult = "ok"
    /\ readTask = "done"
    /\ process = "None"
    /\ child = "exited"
    /\ tools = <<>>
    /\ ~connected

\* C33: disconnect() always completes: a disconnect() in progress ends,
\* whatever the child does; the child is killed exactly when it is still
\* running at the end of the grace period that follows the terminate request
\* (never without that request, never once it has exited), so a child that
\* ignores termination does not block disconnect().
C33_DisconnectAlwaysCompletes ==
    /\ (dpc # "idle") ~> (dpc = "idle")
    /\ [][(lastSignal' = "kill" /\ lastSignal # "kill")
            => /\ dpc = "wait"
               /\ lastSignal = "term"
               /\ child = "alive"]_vars
    /\ [][(dpc = "wait" /\ dpc' # "wait")
            => /\ dpc' = "idle"
               /\ lastSignal' = (IF child = "alive" THEN "kill" ELSE "term")
               /\ child' = "exited"]_vars

\* C33 witness: the child ignored the terminate request, was killed at the
\* end of the grace period, and disconnect() has returned.
C33_Witness ==
    /\ lastSignal = "kill"
    /\ dpc = "idle"
    /\ discResult = "ok"
    /\ process = "None"
    /\ child = "exited"

\* C34: disconnect() on a client that had connected and whose subprocess has
\* exited on its own completes without raising.
C34_DisconnectAfterCrashDoesNotRaise ==
    connectRet = "True" => discResult # "raised"

\* The child has exited and the reader loop has ended.
ProviderGone == child = "exited" /\ readTask # "running"

\* Request i is issued in this step.
Issued(i) == req[i] = NoReq /\ req'[i] # NoReq

\* Request i, which no reader can resolve any more, ends in this step.
EndsUnanswered(i) ==
    /\ ProviderGone
    /\ InFlight(req[i])
    /\ req[i].fut \in {"pending", "cancelled"}
    /\ req'[i].st = "done"

\* C35 as claimed: a request on a still-connected client whose child has
\* exited and whose reader has ended is never failed immediately: it ends
\* only when its own timeout fires, with the timeout failure and its pending
\* entry removed.
C35_DeadChildRequestEndsByTimeout ==
    [][\A i \in Ids :
         EndsUnanswered(i) => (req'[i].outcome = "timeout" /\ i \notin pending')]_vars

\* C35: a request issued on a still-connected client whose child has exited
\* and whose reader has ended is registered as pending and written; it never
\* gets a reply, and ends either at once with the write failure of drain(),
\* its pending entry left behind, or when its own timeout fires, its pending
\* entry removed.
C35_DeadChildRequestFailsOrTimesOut ==
    /\ [][\A i \in Ids :
            (Issued(i) /\ ProviderGone)
                => /\ connected'
                   /\ i \in pending'
                   /\ req'[i].st = "drain"
                   /\ written'[Len(written')].id = i]_vars
    /\ [][\A i \in Ids :
            EndsUnanswered(i)
                => /\ req'[i].outcome \in {"write_error", "timeout"}
                   /\ req'[i].nres = 0
                   /\ (req'[i].outcome = "timeout") = (i \notin pending')
                   /\ (req'[i].outcome = "timeout") = (req[i].st = "expired")]_vars

\* C35 witness: on a connected client whose child has exited and whose reader
\* has ended, a tools/call was sent and failed with the write failure, its
\* entry still in the pending table.
C35_Witness ==
    /\ connected
    /\ ProviderGone
    /\ lastCall = [method |-> "tools/call", result |-> "sent"]
    /\ \E i \in Ids : /\ req[i].method = "tools/call"
                      /\ req[i].outcome = "write_error"
                      /\ i \in pending

\* The list holds one tool per entry of the reply, in order.
IsWhole(list, entries) ==
    /\ Len(list) = Len(entries)
    /\ \A k \in 1..Len(entries) : "name" \in DOMAIN entries[k] /\ list[k] = entries[k].name

\* C36: when _fetch_tools finishes, the tool list is either exactly the full
\* list of the tools/list reply or, the refresh having failed, exactly what
\* it was before; it is never a part of the reply's list.
C36_ToolListReplacedWholesale ==
    [][\A i \in Ids :
         (req[i].method = "tools/list" /\ req[i].st # "done" /\ req'[i].st = "done")
            => \/ IsWhole(tools', ReplyTools(req'[i].kind))
                    /\ req'[i].outcome = "success"
               \/ tools' = tools]_vars


ResourceMethods == {"resources/list", "resources/read"}

\* The request of a public call has ended with a remote error or a timeout.
FailedCall(i, methods) ==
    /\ req[i].method \in methods
    /\ req[i].st = "done"
    /\ req[i].outcome \in {"remote_error", "timeout"}

\* C37 (as stated): list_resources and read_resource behave like call_tool: on
\* a client that is not connected they fail at once and send nothing, and a
\* remote error or a timeout of their request reaches the caller as a failure.
C37_ResourceCallsFailLikeCallTool ==
    /\ [][\A m \in ResourceMethods :
            (ClientCall(m) /\ ~connected)
                => /\ lastCall' = [method |-> m, result |-> "not_connected"]
                   /\ written' = written
                   /\ pending' = pending]_vars
    /\ [](\A i \in Ids : FailedCall(i, ResourceMethods) => Returned(i) = req[i].outcome)

\* C37 (amended): neither method sends anything on a client that is not
\* connected; read_resource then fails at once and hands a remote error or a
\* timeout on to its caller, as call_tool does, while list_resources never
\* fails: it gives the empty list when not connected and whenever its request
\* ended without a result.
C37_ReadRaisesListReturnsEmpty ==
    /\ [][\A m \in ResourceMethods :
            (ClientCall(m) /\ ~connected)
                => /\ lastCall' = [method |-> m,
                                   result |-> IF m = "resources/read"
                                              THEN "not_connected" ELSE "empty"]
                   /\ written' = written
                   /\ pending' = pending]_vars
    /\ [](\A i \in Ids :
            /\ FailedCall(i, {"resources/read", "tools/call"}) => Returned(i) = req[i].outcome
            /\ (req[i].method = "resources/list" /\ req[i].st = "done")
                  => Returned(i) = (IF req[i].outcome = "success" THEN "success" ELSE "empty"))

\* A list_resources call whose request the provider answered with an error has
\* returned the empty list.
C37_Witness ==
    \E i \in Ids :
        /\ FailedCall(i, {"resources/list"})
        /\ req[i].outcome = "remote_error"
        /\ Returned(i) = "empty"


\* The positions of the manager's configs named n.
ConfigsNamed(cfgs, n) == {k \in 1..Len(cfgs) : cfgs[k].name = n}

\* A step puts a client into the registry under n, as a new key or in place
\* of another client.
Registered(n) ==
    /\ n \in DOMAIN clientRef'
    /\ n \in DOMAIN clientRef => clientRef'[n] # clientRef[n]

\* C38: whatever the sequence of connect_all, reconnect(name) and the connect
\* route, no client is registered for a server that is configured with
\* enabled = false.
C38_DisabledNeverRegistered ==
    [][\A n \in RouteNames :
         (Registered(n) /\ ConfigsNamed(configs', n) # {})
            => \E k \in ConfigsNamed(configs', n) : configs'[k].enabled]_vars


\* C39: whatever the sequence or interleaving of load_config, add_server,
\* server removal, connect_all and reconnect, once the callers have returned
\* every key of the registry is the name of a config the manager holds, so
\* status() lists every registered client.
C39_RegistryKeysAreConfigured ==
    AllReturned => \A n \in DOMAIN clientRef : ConfigsNamed(configs, n) # {}

====
